---------------------------- MODULE Spec2Model ----------------------------
(***************************************************************************)
(* A model of the renethack engine: the world step (spawn, entity pass,    *)
(* compaction), the entity steps of Hero and Monster, the hero's actions   *)
(* Move / Use / Wait, the pathfinder, and the part of MainGame.step that   *)
(* feeds input to the hero and calls the world step, saves the score and   *)
(* leaves the game; and the level generator (make_world, make_level,       *)
(* make_room, make_corridor, check_fill_rect) on grids of its own.         *)
(*                                                                         *)
(* Levels are small hand-written maps with the shape the generator gives   *)
(* (floor enclosed by walls, a door on a wall line between two floor       *)
(* tiles, UpStairs at the centre point, DownStairs on a floor tile), with  *)
(* rooms one tile high.  Points are <<x, y>> with 0-based coordinates, as  *)
(* in the source.                                                          *)
(***************************************************************************)
EXTENDS Integers, Sequences, FiniteSets, TLC

(***************************************************************************)
(* Bounds of the model.                                                    *)
(***************************************************************************)
\* The number of monsters spawned over a whole run (monster ids 1..MaxSpawns).
MaxSpawns == 2

\* The number of world steps of a run of Spec.
MaxTicks == 5

\* The number of world steps of a run of SpecLong.
MaxTicksLong == 9

\* The number of world steps of a run of SpecAdd.
MaxTicksAdd == 3

\* The number of world steps of a run of SpecHero.
MaxTicksHero == 2
MaxTicksPath == 3

(***************************************************************************)
(* Values standing for Python's None and for object identity.              *)
(***************************************************************************)
\* None in a tile's entity slot.
NoEntity == -1

\* The identity of the Hero object (monsters are 1, 2, ... in spawn order).
HeroId == 0

\* None in a level's entity list.
NoPoint == << >>

(***************************************************************************)
(* world.py: tile types.                                                   *)
(***************************************************************************)
SOLID_EARTH == "SolidEarth"
WALL == "Wall"
FLOOR == "Floor"
UP_STAIRS == "UpStairs"
DOWN_STAIRS == "DownStairs"
CLOSED_DOOR == "ClosedDoor"
OPEN_DOOR == "OpenDoor"

TileTypes == {SOLID_EARTH, WALL, FLOOR, UP_STAIRS, DOWN_STAIRS, CLOSED_DOOR, OPEN_DOOR}

\* TileType.passable
passable(type) == type \in {FLOOR, UP_STAIRS, DOWN_STAIRS, OPEN_DOOR}

MAX_MONSTERS == 6

(***************************************************************************)
(* util.py                                                                 *)
(***************************************************************************)
\* min_clamp without its floor.
no_clamp(value, min_) == value

min_clamp(value, min_) == IF value < min_ THEN min_ ELSE value

Abs(n) == IF n < 0 THEN 0 - n ELSE n

(***************************************************************************)
(* entity.py: directions.                                                  *)
(***************************************************************************)
Directions == {"NORTH", "NORTHEAST", "EAST", "SOUTHEAST",
               "SOUTH", "SOUTHWEST", "WEST", "NORTHWEST"}

direction_to_point(direction) ==
    IF direction = "NORTH" THEN <<0, 1>>
    ELSE IF direction = "NORTHEAST" THEN <<1, 1>>
    ELSE IF direction = "EAST" THEN <<1, 0>>
    ELSE IF direction = "SOUTHEAST" THEN <<1, -1>>
    ELSE IF direction = "SOUTH" THEN <<0, -1>>
    ELSE IF direction = "SOUTHWEST" THEN <<-1, -1>>
    ELSE IF direction = "WEST" THEN <<-1, 0>>
    ELSE <<-1, 1>>

\* Only called with the difference of two adjacent points.
point_to_direction(point) ==
    IF point = <<0, 1>> THEN "NORTH"
    ELSE IF point = <<1, 1>> THEN "NORTHEAST"
    ELSE IF point = <<1, 0>> THEN "EAST"
    ELSE IF point = <<1, -1>> THEN "SOUTHEAST"
    ELSE IF point = <<0, -1>> THEN "SOUTH"
    ELSE IF point = <<-1, -1>> THEN "SOUTHWEST"
    ELSE IF point = <<-1, 0>> THEN "WEST"
    ELSE "NORTHWEST"

\* point + direction_to_point(direction)
Shift(point, direction) ==
    <<point[1] + direction_to_point(direction)[1],
      point[2] + direction_to_point(direction)[2]>>

(***************************************************************************)
(* The maps.  A map is written as its rows, top row (largest y) first;     *)
(* "#" Wall, " " SolidEarth, "." Floor, "+" ClosedDoor, "<" UpStairs,      *)
(* ">" DownStairs.  The first map has no UpStairs and the last has no      *)
(* DownStairs (make_world); the UpStairs is at the centre point.           *)
(***************************************************************************)
Maps ==
    << << <<" ", " ", " ", " ", " ", " ">>,
          <<" ", " ", " ", " ", " ", " ">>,
          <<"#", "#", "#", "#", "#", "#">>,
          <<"#", ">", ".", "+", ".", "#">>,
          <<"#", "#", "#", "#", "#", "#">>,
          <<" ", " ", " ", " ", " ", " ">> >>,
       << <<" ", " ", " ", " ", " ", " ">>,
          <<" ", " ", " ", " ", " ", " ">>,
          <<"#", "#", "#", "#", "#", " ">>,
          <<"#", ">", "<", ".", "#", " ">>,
          <<"#", "#", "#", "#", "#", " ">>,
          <<" ", " ", " ", " ", " ", " ">> >>,
       << <<" ", " ", " ", " ", " ", " ">>,
          <<" ", " ", " ", " ", " ", " ">>,
          <<"#", "#", "#", "#", "#", " ">>,
          <<"#", ".", "<", ".", "#", " ">>,
          <<"#", "#", "#", "#", "#", " ">>,
          <<" ", " ", " ", " ", " ", " ">> >> >>

\* make_world's `levels` and `level_length` arguments.
levels == Len(Maps)
level_length == Len(Maps[1])

\* make_world: (centre, centre) is the centre of each level.
centre == (level_length - 1) \div 2

Points == (0 .. level_length - 1) \X (0 .. level_length - 1)

CharType(c) ==
    IF c = "#" THEN WALL
    ELSE IF c = "." THEN FLOOR
    ELSE IF c = "+" THEN CLOSED_DOOR
    ELSE IF c = "<" THEN UP_STAIRS
    ELSE IF c = ">" THEN DOWN_STAIRS
    ELSE SOLID_EARTH

\* new_tile
new_tile(type_) == [type |-> type_, entity |-> NoEntity]

\* The Level object make_level returns for map k: no entity on it.
make_level(k) ==
    [tiles |-> [p \in Points |->
                    new_tile(CharType(Maps[k][level_length - p[2]][p[1] + 1]))],
     entities |-> << >>]

\* get_tiles: the points of `level` with tile type `type_`, x-major order.
RECURSIVE get_tiles_from(_, _, _)
get_tiles_from(level, type_, n) ==
    IF n >= level_length * level_length THEN << >>
    ELSE LET p == <<n \div level_length, n % level_length>>
         IN  (IF level.tiles[p].type = type_ THEN <<p>> ELSE << >>)
             \o get_tiles_from(level, type_, n + 1)

get_tiles(level, type_) == get_tiles_from(level, type_, 0)

(***************************************************************************)
(* entity_types.py: Node, and entity.py: find_path.                        *)
(* A node's parent is << >> (None) or <<node>>.                            *)
(***************************************************************************)
Node(parent, point, target_point) ==
    LET cost == IF parent = << >> THEN 0 ELSE parent[1].cost + 1
        remaining_cost == Abs(point[1] - target_point[1])
                          + Abs(point[2] - target_point[2])
    IN  [parent |-> parent,
         point |-> point,
         cost |-> cost,
         remaining_cost |-> remaining_cost,
         final_cost |-> cost + remaining_cost]

\* list.sort(key=final_cost) is stable: insert each node behind the nodes
\* that are not more expensive.
RECURSIVE InsertByCost(_, _)
InsertByCost(sorted, n) ==
    IF sorted = << >> THEN <<n>>
    ELSE IF Head(sorted).final_cost <= n.final_cost
         THEN <<Head(sorted)>> \o InsertByCost(Tail(sorted), n)
         ELSE <<n>> \o sorted

RECURSIVE SortByCost(_)
SortByCost(list) ==
    IF list = << >> THEN << >>
    ELSE InsertByCost(SortByCost(SubSeq(list, 1, Len(list) - 1)), list[Len(list)])

\* list.remove(x): drop the first occurrence.
RECURSIVE RemoveFirst(_, _)
RemoveFirst(list, x) ==
    IF list = << >> THEN << >>
    ELSE IF Head(list) = x THEN Tail(list)
    ELSE <<Head(list)>> \o RemoveFirst(Tail(list), x)

adjacent(p) ==
    << <<p[1], p[2] + 1>>, <<p[1] + 1, p[2] + 1>>, <<p[1] + 1, p[2]>>,
       <<p[1] + 1, p[2] - 1>>, <<p[1], p[2] - 1>>, <<p[1] - 1, p[2] - 1>>,
       <<p[1] - 1, p[2]>>, <<p[1] - 1, p[2] + 1>> >>

\* The pathfinder that takes a closed door for a wall.
AdmissibleOpen(type) == passable(type)

\* The pathfinder enters a tile that is passable or a closed door.
Admissible(type) == passable(type) \/ type = CLOSED_DOOR

\* The body of `for adj_point in adjacent`, from the i-th adjacent point on.
RECURSIVE Expand(_, _, _, _, _, _)
Expand(open_list, closed_list, current_node, target_point, level, i) ==
    IF i > 8 THEN open_list
    ELSE
      LET adj_point == adjacent(current_node.point)[i]
          on_closed_list == \E k \in 1 .. Len(closed_list) :
                                closed_list[k].point = adj_point
          tile == level.tiles[adj_point]
          open_idx == {k \in 1 .. Len(open_list) : open_list[k].point = adj_point}
          adj_node == Node(<<current_node>>, adj_point, target_point)
          next_open ==
              IF Admissible(tile.type) /\ ~on_closed_list
              THEN IF open_idx = {}
                   THEN Append(open_list, adj_node)
                   ELSE LET open_node ==
                                open_list[CHOOSE k \in open_idx :
                                              \A j \in open_idx : k <= j]
                        IN  IF adj_node.cost < open_node.cost
                            THEN Append(RemoveFirst(open_list, open_node), adj_node)
                            ELSE open_list
              ELSE open_list
      IN  Expand(next_open, closed_list, current_node, target_point, level, i + 1)

\* The `while True` loop.  The result is <<node>> for the node that reached
\* the target, or << >> when open_list[0] is taken from an empty list.
RECURSIVE Search(_, _, _, _)
Search(open_list, closed_list, target_point, level) ==
    IF open_list = << >> THEN << >>
    ELSE
      LET sorted == SortByCost(open_list)
          current_node == sorted[1]
          open1 == RemoveFirst(sorted, current_node)
          closed1 == Append(closed_list, current_node)
      IN  IF current_node.point = target_point
          THEN <<current_node>>
          ELSE Search(Expand(open1, closed1, current_node, target_point, level, 1),
                      closed1, target_point, level)

\* The reconstruction loop: the directions from `point` to current_node.
RECURSIVE Reconstruct(_, _)
Reconstruct(current_node, point) ==
    IF current_node.point = point THEN << >>
    ELSE LET parent == current_node.parent[1]
             diff == <<current_node.point[1] - parent.point[1],
                       current_node.point[2] - parent.point[2]>>
         IN  Append(Reconstruct(parent, point), point_to_direction(diff))

\* find_path: [found, path]; found is FALSE where the source raises.
find_path(point, target_point, level) ==
    LET r == Search(<<Node(<< >>, point, target_point)>>, << >>, target_point, level)
    IN  IF r = << >> THEN [found |-> FALSE, path |-> << >>]
        ELSE [found |-> TRUE, path |-> Reconstruct(r[1], point)]

(***************************************************************************)
(* entity.py: the monster constructors and the depth-indexed table.        *)
(***************************************************************************)
Monster(name, hit_points, defence, speed, strength, open_doors) ==
    [name |-> name,
     hit_points |-> hit_points,
     max_hit_points |-> hit_points,
     defence |-> defence,
     speed |-> speed,
     strength |-> strength,
     open_doors |-> open_doors,
     energy |-> 0]

new_goblin == Monster("Goblin", 3, 0, 50, 2, TRUE)
new_giant_ant == Monster("Giant Ant", 2, 0, 80, 1, FALSE)
new_giant_rat == Monster("Giant Rat", 1, 0, 80, 1, FALSE)
new_gremlin == Monster("Gremlin", 2, 0, 90, 1, TRUE)
new_wolf == Monster("Wolf", 3, 0, 90, 3, FALSE)
new_black_naga == Monster("Black Naga", 5, 3, 60, 4, TRUE)
new_floating_eye == Monster("Floating Eye", 3, 2, 60, 2, FALSE)
new_gelationous_cube == Monster("Gelationous Cube", 5, 2, 35, 4, FALSE)
new_fire_elemental == Monster("Fire Elemental", 6, 2, 75, 5, TRUE)
new_jabberwock == Monster("Jabberwock", 9, 3, 100, 6, TRUE)
new_mind_flayer == Monster("Mind Flayer", 15, 5, 100, 8, TRUE)
new_dragon == Monster("Dragon", 20, 5, 70, 6, TRUE)
new_couatl == Monster("Couatl", 30, 10, 100, 10, TRUE)

\* monster_fns[len(world.upper_levels)]: Python indexes it from 0.
monster_fns ==
    << <<new_giant_ant, new_gremlin, new_giant_rat>>,
       <<new_giant_ant, new_gremlin, new_goblin, new_floating_eye, new_giant_rat>>,
       <<new_giant_ant, new_gremlin, new_goblin, new_wolf, new_floating_eye>>,
       <<new_goblin, new_wolf, new_floating_eye>>,
       <<new_goblin, new_wolf, new_black_naga>>,
       <<new_gelationous_cube, new_fire_elemental, new_black_naga>>,
       <<new_gelationous_cube, new_fire_elemental, new_black_naga>>,
       <<new_gelationous_cube, new_fire_elemental, new_jabberwock>>,
       <<new_dragon, new_mind_flayer, new_jabberwock>>,
       <<new_dragon, new_mind_flayer, new_couatl>> >>

(***************************************************************************)
(* entity_types.py: the Hero object and the action objects.                *)
(***************************************************************************)
Hero(hit_points, defence, speed, strength) ==
    [hit_points |-> hit_points,
     max_hit_points |-> hit_points,
     defence |-> defence,
     speed |-> speed,
     strength |-> strength,
     level |-> 1,
     experience |-> 0,
     score |-> 0,
     energy |-> 0,
     hp_counter |-> 0,
     actions |-> << >>,
     messages |-> << >>]

\* rand_hero: the stat blocks the run draws the hero from, each inside
\* randint(7, 10), randint(0, 1), randint(50, 75), randint(1, 2).
rand_hero == {Hero(7, 0, 75, 1)}

Move(direction) == [op |-> "Move", direction |-> direction]
Use(direction) == [op |-> "Use", direction |-> direction]
Wait == [op |-> "Wait", direction |-> "NONE"]

\* A message: the format string, the name and the number put into it.
Msg(text, name, n) == <<text, name, n>>

(***************************************************************************)
(* world.py: add_entity and remove_entity.  An operation that can raise    *)
(* returns the error's name beside its result ("none": it returned).       *)
(***************************************************************************)
\* add_entity without the passability check.
add_entity_anywhere(level, point, entity) ==
    IF level.tiles[point].entity # NoEntity
    THEN [level |-> level, error |-> "ExistingEntityError"]
    ELSE [level |-> [level EXCEPT !.tiles[point].entity = entity,
                                  !.entities = Append(@, point)],
          error |-> "none"]

add_entity(level, point, entity) ==
    LET tile == level.tiles[point]
    IN  IF tile.entity # NoEntity
        THEN [level |-> level, error |-> "ExistingEntityError"]
        ELSE IF ~passable(tile.type)
        THEN [level |-> level, error |-> "TileNotPassableError"]
        ELSE [level |-> [level EXCEPT !.tiles[point].entity = entity,
                                      !.entities = Append(@, point)],
              error |-> "none"]

\* list.index(point): the first index holding `point`, 0 when there is none
\* (the source raises ValueError there).
index(list, point) ==
    IF \E k \in 1 .. Len(list) : list[k] = point
    THEN CHOOSE k \in 1 .. Len(list) :
             list[k] = point /\ \A j \in 1 .. k - 1 : list[j] # point
    ELSE 0

\* remove_entity that deletes the entry from the list.
remove_entity_shifting(level, point) ==
    [level |-> [level EXCEPT !.tiles[point].entity = NoEntity,
                             !.entities = RemoveFirst(@, point)],
     error |-> IF index(level.entities, point) = 0 THEN "ValueError" ELSE "none"]

remove_entity(level, point) ==
    LET k == index(level.entities, point)
    IN  IF k = 0
        THEN [level |-> [level EXCEPT !.tiles[point].entity = NoEntity],
              error |-> "ValueError"]
        ELSE [level |-> [level EXCEPT !.tiles[point].entity = NoEntity,
                                      !.entities[k] = NoPoint],
              error |-> "none"]

\* make_world and World.__init__: the world with the hero on the first level.
make_world ==
    [upper_levels |-> << >>,
     current_level |-> add_entity(make_level(1), <<centre, centre>>, HeroId).level,
     lower_levels |-> [k \in 1 .. levels - 1 |-> make_level(k + 1)],
     hero |-> <<centre, centre>>]

(***************************************************************************)
(* The objects an operation works on, passed as one record `st`:           *)
(*   world     the World object                                            *)
(*   hero      the Hero object                                             *)
(*   monsters  the Monster objects, monsters[i] being the one with id i    *)
(*   error     "none", or the exception that ended the operation           *)
(***************************************************************************)
EntityOf(st, id) == IF id = HeroId THEN st.hero ELSE st.monsters[id]

Raise(st, err) == [st EXCEPT !.error = err]

add_message(st, msg) == [st EXCEPT !.hero.messages = Append(@, msg)]

\* target_tile.entity.hit_points -= damage
Hit(st, id, damage) ==
    IF id = HeroId
    THEN [st EXCEPT !.hero.hit_points = @ - damage]
    ELSE [st EXCEPT !.monsters[id].hit_points = @ - damage]

(***************************************************************************)
(* Steps shared by the operations below.  Each takes the objects `st` and  *)
(* gives them back changed; once st.error is set the rest of the operation *)
(* is skipped, as after a raise.                                           *)
(***************************************************************************)
TileAt(st, p) == st.world.current_level.tiles[p]

\* An action that costs no energy.
SpendNothing(st, id) == st

\* hero.energy -= 100, self.energy -= 100
Spend(st, id) ==
    IF id = HeroId
    THEN [st EXCEPT !.hero.energy = @ - 100]
    ELSE [st EXCEPT !.monsters[id].energy = @ - 100]

\* The current level becomes the result `r` of add_entity or remove_entity.
SetLevel(st, r) ==
    IF r.error # "none"
    THEN Raise([st EXCEPT !.world.current_level = r.level], r.error)
    ELSE [st EXCEPT !.world.current_level = r.level]

\* renethack.world.remove_entity(world.current_level, point)
Removed(st, point) ==
    IF st.error # "none" THEN st
    ELSE SetLevel(st, remove_entity(st.world.current_level, point))

\* renethack.world.add_entity(world.current_level, point, entity)
Added(st, point, id) ==
    IF st.error # "none" THEN st
    ELSE SetLevel(st, add_entity(st.world.current_level, point, id))

\* hero.add_message(text), when the operation got that far.
Said(st, text) ==
    IF st.error # "none" THEN st ELSE add_message(st, Msg(text, "", 0))

\* The hero's attack of Move.execute (lines 47-51) and Use.execute (106-110).
HeroHits(st, id, damage) ==
    add_message(Hit(st, id, damage),
                Msg("You hit the {} for {} damage!", EntityOf(st, id).name, damage))

HeroAttack(st, id) ==
    HeroHits(st, id, min_clamp(st.hero.strength - EntityOf(st, id).defence, 0))

(***************************************************************************)
(* entity_types.py: Move.execute                                           *)
(***************************************************************************)
\* The Move that leaves a closed door closed.
MoveLeavesDoor(st, target) == st

\* The Move that takes the closed door away.
MoveRemovesDoor(st, target) ==
    IF TileAt(st, target).type = CLOSED_DOOR
    THEN [st EXCEPT !.world.current_level.tiles[target].type = FLOOR]
    ELSE st

\* Lines 59-61.
MoveOpensDoor(st, target) ==
    IF TileAt(st, target).type = CLOSED_DOOR
    THEN [add_message(st, Msg("You open the door.", "", 0))
            EXCEPT !.world.current_level.tiles[target].type = OPEN_DOOR]
    ELSE st

\* Line 71.
HeroAt(st, target) ==
    IF st.error # "none" THEN st ELSE [st EXCEPT !.world.hero = target]

\* The Move whose attack keeps the rest of the queue.
MoveOntoKeepsQueue(st, target) ==
    IF TileAt(st, target).entity # NoEntity
    THEN HeroAttack(st, TileAt(st, target).entity)
    ELSE HeroAt(Added(Removed(MoveOpensDoor(st, target), st.world.hero),
                      target, HeroId),
                target)

\* Lines 45-71, after `hero.energy -= 100`.
MoveOnto(st, target) ==
    IF TileAt(st, target).entity # NoEntity
    THEN [HeroAttack(st, TileAt(st, target).entity) EXCEPT !.hero.actions = << >>]
    ELSE HeroAt(Added(Removed(MoveOpensDoor(st, target), st.world.hero),
                      target, HeroId),
                target)

Move_execute(st, direction) ==
    MoveOnto(Spend(st, HeroId), Shift(st.world.hero, direction))

(***************************************************************************)
(* entity_types.py: Use.execute                                            *)
(***************************************************************************)
\* Lines 126-129 and 142-145: the hero arrives at `point` of the new level.
ArriveAt(st, point, text) ==
    Said(Added([st EXCEPT !.world.hero = point], point, HeroId), text)

\* The ascent that puts the hero on the centre point instead of the DownStairs.
AscendToCentre(st) ==
    IF st.error # "none" THEN st
    ELSE ArriveAt([st EXCEPT !.world.lower_levels = <<st.world.current_level>> \o @,
                             !.world.current_level = st.world.upper_levels[1],
                             !.world.upper_levels = Tail(@)],
                  <<centre, centre>>,
                  "You ascend the stairs.")

\* The ascent that leaves the level it goes to on upper_levels.
AscendKeepsUpper(st) ==
    IF st.error # "none" THEN st
    ELSE ArriveAt([st EXCEPT !.world.lower_levels = <<st.world.current_level>> \o @,
                             !.world.current_level = st.world.upper_levels[1]],
                  get_tiles(st.world.upper_levels[1], DOWN_STAIRS)[1],
                  "You ascend the stairs.")

\* Lines 119-129, the hero already removed from the level.
Ascend(st) ==
    IF st.error # "none" THEN st
    ELSE IF st.world.upper_levels = << >>
    THEN Raise([st EXCEPT !.world.lower_levels = <<st.world.current_level>> \o @],
               "IndexError")
    ELSE IF get_tiles(st.world.upper_levels[1], DOWN_STAIRS) = << >>
    THEN Raise([st EXCEPT !.world.lower_levels = <<st.world.current_level>> \o @,
                          !.world.current_level = st.world.upper_levels[1],
                          !.world.upper_levels = Tail(@)],
               "IndexError")
    ELSE ArriveAt([st EXCEPT !.world.lower_levels = <<st.world.current_level>> \o @,
                             !.world.current_level = st.world.upper_levels[1],
                             !.world.upper_levels = Tail(@)],
                  get_tiles(st.world.upper_levels[1], DOWN_STAIRS)[1],
                  "You ascend the stairs.")

\* The descent that leaves the entered level in lower_levels.
DescendKeepsLower(st) ==
    IF st.error # "none" THEN st
    ELSE ArriveAt([st EXCEPT !.world.upper_levels = <<st.world.current_level>> \o @,
                             !.world.current_level = st.world.lower_levels[1]],
                  <<centre, centre>>,
                  "You descend the stairs.")

\* Lines 138-145, the hero already removed from the level.
Descend(st) ==
    IF st.error # "none" THEN st
    ELSE IF st.world.lower_levels = << >>
    THEN Raise([st EXCEPT !.world.upper_levels = <<st.world.current_level>> \o @],
               "IndexError")
    ELSE ArriveAt([st EXCEPT !.world.upper_levels = <<st.world.current_level>> \o @,
                             !.world.current_level = st.world.lower_levels[1],
                             !.world.lower_levels = Tail(@)],
                  <<centre, centre>>,
                  "You descend the stairs.")

\* The Use that looks at the door before it looks for an entity.
UseClosesFirst(st, target) ==
    IF TileAt(st, target).type = OPEN_DOOR
    THEN add_message(
           [st EXCEPT !.world.current_level.tiles[target].type = CLOSED_DOOR],
           Msg("You close the door.", "", 0))
    ELSE IF TileAt(st, target).entity # NoEntity
    THEN HeroAttack(st, TileAt(st, target).entity)
    ELSE IF TileAt(st, target).type = UP_STAIRS
    THEN Ascend(Removed(st, st.world.hero))
    ELSE IF TileAt(st, target).type = DOWN_STAIRS
    THEN Descend(Removed(st, st.world.hero))
    ELSE st

\* Lines 104-149, after `hero.energy -= 100`.
UseOn(st, target) ==
    IF TileAt(st, target).entity # NoEntity
    THEN HeroAttack(st, TileAt(st, target).entity)
    ELSE IF TileAt(st, target).type = UP_STAIRS
    THEN Ascend(Removed(st, st.world.hero))
    ELSE IF TileAt(st, target).type = DOWN_STAIRS
    THEN Descend(Removed(st, st.world.hero))
    ELSE IF TileAt(st, target).type = OPEN_DOOR
    THEN add_message(
           [st EXCEPT !.world.current_level.tiles[target].type = CLOSED_DOOR],
           Msg("You close the door.", "", 0))
    ELSE st

Use_execute(st, direction) ==
    UseOn(Spend(st, HeroId), Shift(st.world.hero, direction))

(***************************************************************************)
(* entity_types.py: Wait.execute                                           *)
(***************************************************************************)
Wait_execute(st) == st

\* action.execute(world)
execute(st, action) ==
    IF action.op = "Move" THEN Move_execute(st, action.direction)
    ELSE IF action.op = "Use" THEN Use_execute(st, action.direction)
    ELSE Wait_execute(st)

(***************************************************************************)
(* entity_types.py: Monster.step, for the monster with id `id` at `point`. *)
(***************************************************************************)
\* The death that awards the hero nothing.
MonsterDiesUnrewarded(st, id) ==
    IF st.error # "none" THEN st
    ELSE add_message(st, Msg("The {} dies!", st.monsters[id].name, 0))

\* Lines 206-213, the monster already removed from the level.
MonsterDies(st, id) ==
    IF st.error # "none" THEN st
    ELSE add_message([st EXCEPT !.hero.experience = @ + 1,
                                !.hero.score = @ + 10],
                     Msg("The {} dies!", st.monsters[id].name, 0))

\* Line 274: self.energy += self.speed
Gain(st, id) ==
    IF st.error # "none" THEN st
    ELSE [st EXCEPT !.monsters[id].energy = @ + st.monsters[id].speed]

\* The test that lets every monster through a closed door.
BlockedNotByDoors(st, id, target_tile) ==
    \/ /\ ~passable(target_tile.type)
       /\ target_tile.type # CLOSED_DOOR
    \/ /\ target_tile.entity # NoEntity
       /\ target_tile.entity # HeroId

\* Lines 233-239: the target tile stops this monster.
Blocked(st, id, target_tile) ==
    \/ /\ ~passable(target_tile.type)
       /\ (target_tile.type # CLOSED_DOOR \/ ~st.monsters[id].open_doors)
    \/ /\ target_tile.entity # NoEntity
       /\ target_tile.entity # HeroId

\* Lines 248-252.
MonsterHits(st, id, damage) ==
    add_message(Hit(st, HeroId, damage),
                Msg("The {} hits you for {} damage!", st.monsters[id].name, damage))

\* The death that leaves the hero on its tile.
HeroStays(st) == st

\* Lines 254-259.
HeroDies(st) ==
    IF st.hero.hit_points <= 0
    THEN Said(Removed(st, st.world.hero), "You have died.")
    ELSE st

\* Lines 246-259.
MonsterAttack(st, id) ==
    HeroDies(MonsterHits(st, id,
                         min_clamp(st.monsters[id].strength - st.hero.defence, 0)))

\* Lines 263-264.
MonsterOpensDoor(st, target) ==
    IF TileAt(st, target).type = CLOSED_DOOR
    THEN [st EXCEPT !.world.current_level.tiles[target].type = OPEN_DOOR]
    ELSE st

\* Lines 261-272.
MonsterMove(st, id, point, target) ==
    Added(Removed(MonsterOpensDoor(st, target), point), target, id)

\* Lines 228-274, for the tile `target` next on the path.
MonsterToward(st, id, point, target) ==
    IF Blocked(st, id, TileAt(st, target)) THEN st
    ELSE IF TileAt(st, target).entity = HeroId
    THEN Gain(MonsterAttack(Spend(st, id), id), id)
    ELSE Gain(MonsterMove(Spend(st, id), id, point, target), id)

\* Lines 220-226: path[0] of the path `found`.
MonsterActs(st, id, point, found) ==
    IF ~found.found \/ found.path = << >> THEN Raise(st, "IndexError")
    ELSE MonsterToward(st, id, point, Shift(point, found.path[1]))

Monster_step(st, id, point) ==
    IF st.monsters[id].hit_points <= 0
    THEN MonsterDies(Removed(st, point), id)
    ELSE IF st.monsters[id].energy >= 100
    THEN MonsterActs(st, id, point,
                     find_path(point, st.world.hero, st.world.current_level))
    ELSE Gain(st, id)

(***************************************************************************)
(* entity_types.py: Hero.step                                              *)
(***************************************************************************)
\* The level-up that asks for more than 6 experience.
LevelUpAboveSix(h) ==
    IF h.experience > 6
    THEN [h EXCEPT !.experience = 0,
                   !.level = @ + 1,
                   !.score = @ + 100,
                   !.messages = Append(@, Msg("Welcome to level {}.", "", h.level + 1)),
                   !.max_hit_points = @ + 1,
                   !.defence = @ + 1,
                   !.speed = @ + 10,
                   !.strength = @ + 1]
    ELSE h

\* Lines 365-377: the level-up.
LevelUp(h) ==
    IF h.experience >= 6
    THEN [h EXCEPT !.experience = 0,
                   !.level = @ + 1,
                   !.score = @ + 100,
                   !.messages = Append(@, Msg("Welcome to level {}.", "", h.level + 1)),
                   !.max_hit_points = @ + 1,
                   !.defence = @ + 1,
                   !.speed = @ + 10,
                   !.strength = @ + 1]
    ELSE h

\* Lines 379-391: the regeneration.
Regenerate(h) ==
    IF h.hit_points < h.max_hit_points
    THEN IF h.hp_counter >= 10
         THEN [h EXCEPT !.hp_counter = 0, !.hit_points = @ + 1]
         ELSE [h EXCEPT !.hp_counter = @ + 1]
    ELSE [h EXCEPT !.hp_counter = 0]

\* Line 403: self.energy += self.speed
HeroGain(st) ==
    IF st.error # "none" THEN st
    ELSE [st EXCEPT !.hero.energy = @ + st.hero.speed]

\* The hero acting whatever its energy.
HeroActsUngated(st) ==
    IF st.hero.actions = << >> THEN HeroGain(st)
    ELSE HeroGain(execute([st EXCEPT !.hero.actions = Tail(@)],
                          st.hero.actions[1]))

\* Lines 396-403.
HeroActs(st) ==
    IF st.hero.energy >= 100
    THEN IF st.hero.actions = << >> THEN Raise(st, "IndexError")
         ELSE HeroGain(execute([st EXCEPT !.hero.actions = Tail(@)],
                               st.hero.actions[1]))
    ELSE HeroGain(st)

Hero_step(st, point) ==
    HeroActs([st EXCEPT !.hero = Regenerate(LevelUp(st.hero))])

\* entity.step(entity_point, world)
entity_step(st, id, point) ==
    IF id = HeroId THEN Hero_step(st, point) ELSE Monster_step(st, id, point)

(***************************************************************************)
(* entity_types.py: Hero.wait and Hero.path_to                             *)
(***************************************************************************)
wait(st) == [st EXCEPT !.hero.actions = <<Wait>>]

\* Line 332.
Moves(directions) == [k \in 1 .. Len(directions) |-> Move(directions[k])]

\* The conversion that also turns a click on a closed door into a Use.
PathActionsUseDoors(st, tile, found) ==
    IF ~found.found THEN Raise(st, "IndexError")
    ELSE IF tile.type \in {UP_STAIRS, DOWN_STAIRS, OPEN_DOOR, CLOSED_DOOR}
    THEN [st EXCEPT !.hero.actions =
             Append(SubSeq(Moves(found.path), 1, Len(found.path) - 1),
                    Use(found.path[Len(found.path)]))]
    ELSE [st EXCEPT !.hero.actions = Moves(found.path)]

\* Lines 332-344, for the directions `found` of find_path.
PathActions(st, tile, found) ==
    IF ~found.found THEN Raise(st, "IndexError")
    ELSE IF tile.type \in {UP_STAIRS, DOWN_STAIRS, OPEN_DOOR}
    THEN [st EXCEPT !.hero.actions =
             Append(SubSeq(Moves(found.path), 1, Len(found.path) - 1),
                    Use(found.path[Len(found.path)]))]
    ELSE [st EXCEPT !.hero.actions = Moves(found.path)]

path_to(st, point) ==
    IF ~passable(TileAt(st, point).type) /\ TileAt(st, point).type # CLOSED_DOOR
    THEN add_message(st, Msg("You cannot move there.", "", 0))
    ELSE IF st.world.hero = point THEN wait(st)
    ELSE PathActions(st, TileAt(st, point),
                     find_path(st.world.hero, point, st.world.current_level))

(***************************************************************************)
(* The state.                                                              *)
(*   world, hero, monsters, error   the objects (see `st` above)           *)
(*   pc       "idle": between two MainGame.step calls; "frame": inside     *)
(*            MainGame.step, input handled; "pass": inside world.step's    *)
(*            entity loop; "crashed": an exception left the program        *)
(*   idx      the entity loop's position in current_level.entities         *)
(*   updated_entities   world.step's local list                            *)
(*   ticks    the number of world.step calls so far                        *)
(*   call     history of the running (or last) world.step call: the        *)
(*            entities on the level when its pass started, the length of   *)
(*            the entity list then, the steps it invoked (with the hero's  *)
(*            queue before each), and how it ended                         *)
(*   gen      the locals of a running make_world / make_level call: the    *)
(*            arguments, the list of levels made so far, the level being   *)
(*            made and its reject_count                                    *)
(*   score_saved   MainGame.score_saved                                    *)
(*   scores   the Score records save_score has appended, in order          *)
(***************************************************************************)
VARIABLES world, hero, monsters, error, pc, idx, updated_entities, ticks, call,
          gen, score_saved, scores

vars == <<world, hero, monsters, error, pc, idx, updated_entities, ticks, call,
          gen, score_saved, scores>>

St == [world |-> world, hero |-> hero, monsters |-> monsters, error |-> error]

\* The objects become those of `s`.
Becomes(s) ==
    /\ world' = s.world
    /\ hero' = s.hero
    /\ monsters' = s.monsters
    /\ error' = s.error

NoCall == [live |-> {}, length |-> 0, stepped |-> << >>, ended |-> "complete"]

\* No World object yet.
NoWorld ==
    [upper_levels |-> << >>,
     current_level |-> [tiles |-> << >>, entities |-> << >>],
     lower_levels |-> << >>,
     hero |-> NoPoint]

\* No make_world call is running.
NoGen ==
    [levels |-> 0, level_length |-> 0, world |-> << >>,
     up_stairs |-> FALSE, down_stairs |-> FALSE,
     level |-> [tiles |-> << >>, entities |-> << >>], reject_count |-> 0]

\* The entities on the tiles of `level`.
EntitiesOn(level) ==
    {level.tiles[p].entity : p \in {q \in Points : level.tiles[q].entity # NoEntity}}

\* MainGame.__init__: a random hero in a new world.
Init ==
    /\ hero \in rand_hero
    /\ world = make_world
    /\ monsters = << >>
    /\ error = "none"
    /\ pc = "idle"
    /\ idx = 0
    /\ updated_entities = << >>
    /\ ticks = 0
    /\ call = NoCall
    /\ gen = NoGen
    /\ score_saved = FALSE
    /\ scores = << >>

(***************************************************************************)
(* state.py: MainGame.step, up to the call of world.step (lines 340-373).  *)
(* `space`: a KEYDOWN of the space key is among the events; `pressed`:     *)
(* world_display.pressed, NoPoint for None.                                *)
(***************************************************************************)
\* Lines 366-373.
Clicked(st, pressed) ==
    IF st.hero.hit_points > 0 /\ pressed # NoPoint
    THEN path_to(st, pressed)
    ELSE st

\* Line 366: hero.collect_messages()
collect_messages(st) == [st EXCEPT !.hero.messages = << >>]

InputDone(s) ==
    /\ Becomes(s)
    /\ pc' = IF s.error # "none" THEN "crashed" ELSE "frame"
    /\ UNCHANGED <<idx, updated_entities, ticks, call, gen, score_saved, scores>>

\* Lines 339-373: the events, the messages and the click are handled.
Handled(st, space, pressed) ==
    Clicked(collect_messages(IF space THEN wait(st) ELSE st), pressed)

MainGameInput(space, pressed, max_ticks) ==
    /\ pc = "idle"
    /\ ticks < max_ticks
    /\ InputDone(Handled(St, space, pressed))

\* The world stepped whenever the hero is alive.
StepsWhileAlive == hero.hit_points > 0

\* MainGame.step lines 370-379: the world is stepped only while the hero is
\* alive and has less than 100 energy or an action queued.
StepsWorld ==
    /\ hero.hit_points > 0
    /\ (hero.energy < 100 \/ Len(hero.actions) > 0)

\* save_score called twice by the frames that find the hero dead.
SavesAgain == TRUE

\* `not self.score_saved`, lines 362 and 381.
NotSaved == ~score_saved

\* save_score: the flag is set and Score(name, level, score) joins the
\* scores.
save_score ==
    /\ score_saved' = TRUE
    /\ scores' = Append(scores, [level |-> hero.level, score |-> hero.score])

\* The frame does not step the world; lines 381-382: when the hero is dead
\* the score is saved unless it was saved before.
MainGameNoStep ==
    /\ pc = "frame"
    /\ ~StepsWorld
    /\ pc' = "idle"
    /\ IF hero.hit_points <= 0 /\ NotSaved
       THEN save_score
       ELSE UNCHANGED <<score_saved, scores>>
    /\ UNCHANGED <<world, hero, monsters, error, idx, updated_entities, ticks, call,
                   gen>>

\* MainGame.step when the exit button is pressed (lines 340-365): the events
\* are handled, the score is saved unless it was saved before, and the
\* MainMenu state is returned.
MainGameExit(space) ==
    /\ pc = "idle"
    /\ Becomes(IF space THEN wait(St) ELSE St)
    /\ IF NotSaved THEN save_score ELSE UNCHANGED <<score_saved, scores>>
    /\ pc' = "menu"
    /\ UNCHANGED <<idx, updated_entities, ticks, call, gen>>

\* MainGame.step when a QUIT event is among the events (lines 340-345): the
\* events before it are handled and None is returned.
MainGameQuit(space) ==
    /\ pc = "idle"
    /\ Becomes(IF space THEN wait(St) ELSE St)
    /\ pc' = "quit"
    /\ UNCHANGED <<idx, updated_entities, ticks, call, gen, score_saved, scores>>

\* A spawn attempted whatever the length of the entity list.
SpawnsUncapped(level) == TRUE

(***************************************************************************)
(* world.py: step, lines 536-559: the spawn attempt.                       *)
(***************************************************************************)
\* Line 541.
MaySpawn(level) == Len(level.entities) - 1 < MAX_MONSTERS

\* A spawn on the random tile whatever it holds.
SpawnsAnywhere(level, p) == TRUE

\* Lines 547-548, for the tile at the random (x, y).
SpawnTile(level, p) ==
    level.tiles[p].entity = NoEntity /\ level.tiles[p].type = FLOOR

\* The call starts its pass: `updated_entities = []`, the loop at index 0
\* (1 here).
StartPass(s) ==
    /\ Becomes(s)
    /\ pc' = IF s.error # "none" THEN "crashed" ELSE "pass"
    /\ idx' = 1
    /\ updated_entities' = << >>
    /\ ticks' = ticks + 1
    /\ call' = [live |-> EntitiesOn(s.world.current_level),
                length |-> Len(s.world.current_level.entities),
                stepped |-> << >>,
                ended |-> "running"]
    /\ UNCHANGED <<gen, score_saved, scores>>

\* No monster is placed: the cap is reached, the random tile is occupied or
\* not Floor, or rand_chance(0.2) is False.
StepNoSpawn ==
    /\ pc = "frame"
    /\ StepsWorld
    /\ StartPass(St)

\* A monster is placed: the random tile is (x, y) = p, rand_chance(0.2) is
\* True and random.choice takes entry k of the depth's table row.
SpawnUpTo(p, k, max_spawns) ==
    /\ pc = "frame"
    /\ StepsWorld
    /\ Len(monsters) < max_spawns
    /\ MaySpawn(world.current_level)
    /\ SpawnTile(world.current_level, p)
    /\ k \in 1 .. Len(monster_fns[Len(world.upper_levels) + 1])
    /\ LET monster == monster_fns[Len(world.upper_levels) + 1][k]
           add == add_entity(world.current_level, p, Len(monsters) + 1)
       IN  StartPass([St EXCEPT !.monsters = Append(@, monster),
                                !.world.current_level = add.level,
                                !.error = add.error])

StepSpawn(p, k) == SpawnUpTo(p, k, MaxSpawns)

(***************************************************************************)
(* world.py: step, lines 563-591: one iteration of the entity loop.        *)
(***************************************************************************)
InPass == pc = "pass" /\ idx <= Len(world.current_level.entities)

\* entity_point, and the entity on its tile.
entity_point == world.current_level.entities[idx]
entity == world.current_level.tiles[entity_point].entity

\* The skip that looks at tombstones only.
SkipsTombstones == entity_point = NoPoint

\* Lines 568-575: `continue`.
Skips == \/ entity_point = NoPoint
         \/ /\ entity_point # NoPoint
            /\ \E k \in 1 .. Len(updated_entities) : updated_entities[k] = entity

\* The return that looks at the level change only.
ReturnsOnLevelChange(old_world_len, s) ==
    old_world_len # Len(s.world.upper_levels)

\* Lines 581-591: the level changed or the hero's tile is empty.
MustReturn(old_world_len, s) ==
    \/ old_world_len # Len(s.world.upper_levels)
    \/ s.world.current_level.tiles[s.world.hero].entity = NoEntity

PassSkip ==
    /\ InPass
    /\ Skips
    /\ idx' = idx + 1
    /\ UNCHANGED <<world, hero, monsters, error, pc, updated_entities, ticks, call,
                   gen, score_saved, scores>>

\* History: the queued action the hero's step is about to execute.
StepAction ==
    IF entity = HeroId /\ hero.energy >= 100 /\ hero.actions # << >>
    THEN hero.actions[1].op
    ELSE "none"

\* History: the length of the hero's queue when its step starts.
StepQueue == IF entity = HeroId THEN Len(hero.actions) ELSE 0

\* Lines 577-591, `s` being the objects after entity.step.
PassStepTo(s, old_world_len) ==
    /\ Becomes(s)
    /\ updated_entities' = Append(updated_entities, entity)
    /\ pc' = IF s.error # "none" THEN "crashed"
             ELSE IF MustReturn(old_world_len, s) THEN "idle" ELSE "pass"
    /\ idx' = IF s.error # "none" \/ MustReturn(old_world_len, s)
              THEN idx ELSE idx + 1
    /\ call' = [call EXCEPT
                  !.stepped = Append(@, [id |-> entity,
                                         point |-> entity_point,
                                         energy |-> EntityOf(St, entity).energy,
                                         action |-> StepAction,
                                         queue |-> StepQueue]),
                  !.ended = IF s.error # "none" THEN "crashed"
                            ELSE IF MustReturn(old_world_len, s)
                            THEN "truncated" ELSE @]
    /\ UNCHANGED <<ticks, gen, score_saved, scores>>

PassStep ==
    /\ InPass
    /\ ~Skips
    /\ PassStepTo(entity_step(St, entity, entity_point), Len(world.upper_levels))

\* The list left as the pass left it.
KeepsTombstones(list) == list

\* Lines 593-596: the loop is over; the tombstones are dropped.
RECURSIVE Compact(_)
Compact(list) ==
    IF list = << >> THEN << >>
    ELSE (IF Head(list) # NoPoint THEN <<Head(list)>> ELSE << >>)
         \o Compact(Tail(list))

PassEnd ==
    /\ pc = "pass"
    /\ idx > Len(world.current_level.entities)
    /\ world' = [world EXCEPT !.current_level.entities = Compact(@)]
    /\ pc' = "idle"
    /\ call' = [call EXCEPT !.ended = "complete"]
    /\ UNCHANGED <<hero, monsters, error, idx, updated_entities, ticks,
                   gen, score_saved, scores>>

\* The longest row of monster_fns.
MaxRow ==
    CHOOSE n \in 1 .. 10 :
        /\ \A d \in 1 .. Len(monster_fns) : Len(monster_fns[d]) <= n
        /\ \E d \in 1 .. Len(monster_fns) : Len(monster_fns[d]) = n

\* The player clicks any tile of the grid, or none.
Next ==
    \/ \E space \in BOOLEAN, pressed \in Points \cup {NoPoint} :
           MainGameInput(space, pressed, MaxTicks)
    \/ MainGameNoStep
    \/ StepNoSpawn
    \/ \E p \in Points, k \in 1 .. MaxRow : StepSpawn(p, k)
    \/ PassSkip
    \/ PassStep
    \/ PassEnd

Spec == Init /\ [][Next]_vars

\* What every transition inside world.step's entity loop does: the loop goes
\* to its next position, or the call returns or raises.
Iterates ==
    /\ pc = "pass"
    /\ \E p \in {"pass", "idle", "crashed"}, i \in {idx, idx + 1} :
           /\ pc' = p
           /\ idx' = i
           /\ (i = idx + 1 \/ p # "pass")

\* world.step runs on: once the entity loop is entered, its next iteration
\* or its end is executed.
SpecStep == Init /\ [][Next]_vars /\ WF_<<pc, idx>>(Iterates)

\* Longer runs of a player who only waits or clicks the DownStairs tile.
DownStairsPoints ==
    {p \in Points : world.current_level.tiles[p].type = DOWN_STAIRS}

NextLong ==
    \/ \E space \in BOOLEAN, pressed \in DownStairsPoints \cup {NoPoint} :
           MainGameInput(space, pressed, MaxTicksLong)
    \/ MainGameNoStep
    \/ StepNoSpawn
    \/ \E p \in Points, k \in 1 .. MaxRow : StepSpawn(p, k)
    \/ PassSkip
    \/ PassStep
    \/ PassEnd

SpecLong == Init /\ [][NextLong]_vars

\* The same runs, with a player who may press the exit button or close the
\* window.
NextScore ==
    \/ NextLong
    \/ \E space \in BOOLEAN : MainGameExit(space)
    \/ \E space \in BOOLEAN : MainGameQuit(space)

SpecScore == Init /\ [][NextScore]_vars


(***************************************************************************)
(* world.py: add_entity called on its own.  At any moment between two      *)
(* frames add_entity is called on the current level with any point of the  *)
(* grid and a new monster; the state it leaves is kept for inspection and  *)
(* the run ends there (pc = "probe").                                      *)
(***************************************************************************)
AddEntityCall(p) ==
    /\ pc = "idle"
    /\ Becomes(Added([St EXCEPT !.monsters = Append(@, new_giant_rat)],
                     p, Len(monsters) + 1))
    /\ pc' = "probe"
    /\ UNCHANGED <<idx, updated_entities, ticks, call, gen, score_saved, scores>>

NextAdd ==
    \/ \E space \in BOOLEAN, pressed \in Points \cup {NoPoint} :
           MainGameInput(space, pressed, MaxTicksAdd)
    \/ MainGameNoStep
    \/ StepNoSpawn
    \/ \E p \in Points, k \in 1 .. MaxRow : StepSpawn(p, k)
    \/ PassSkip
    \/ PassStep
    \/ PassEnd
    \/ \E p \in Points : AddEntityCall(p)

SpecAdd == Init /\ [][NextAdd]_vars

(***************************************************************************)
(* Vocabulary of the properties below.                                     *)
(***************************************************************************)
Max(a, b) == IF a < b THEN b ELSE a

Stepped == 1 .. Len(call.stepped)

\* This transition is the step of the hero, who has the energy to act and
\* executes a queued action of class `op`.
HeroExecutes(op) ==
    /\ PassStep
    /\ entity = HeroId
    /\ hero.energy >= 100
    /\ hero.actions # << >>
    /\ hero.actions[1].op = op

\* The tile the hero's queued action is aimed at.
TargetPoint == Shift(world.hero, hero.actions[1].direction)
TargetTile == world.current_level.tiles[TargetPoint]

\* This transition is the step of a live monster.
MonsterStepped ==
    /\ PassStep
    /\ entity # HeroId
    /\ monsters[entity].hit_points > 0

\* The stepped monster left its tile.
MonsterMoved == world'.current_level.tiles[entity_point].entity # entity

\* The stepped monster hit the hero: the hit is reported to the player.
MonsterHit ==
    /\ Len(hero'.messages) > Len(hero.messages)
    /\ hero'.messages[Len(hero.messages) + 1][1] = "The {} hits you for {} damage!"

\* C1: in one world.step call no entity is stepped twice, and a call that
\* runs to its end has stepped every entity that was on the level when the
\* pass started (the monster spawned by this call included).
C1_SingleUpdate ==
    /\ \A i, j \in Stepped :
           call.stepped[i].id = call.stepped[j].id => i = j
    /\ call.ended = "complete" =>
           \A e \in call.live : \E i \in Stepped : call.stepped[i].id = e

\* C1 witness: a call ran to its end in which a live monster, one of at
\* least two entities, left the tile it was stepped on, so that its new
\* point was appended to the list being iterated.
C1_Witness ==
    /\ call.ended = "complete"
    /\ Cardinality(call.live) >= 2
    /\ \E i \in Stepped :
           /\ call.stepped[i].id # HeroId
           /\ monsters[call.stepped[i].id].hit_points > 0
           /\ world.current_level.tiles[call.stepped[i].point].entity
                  # call.stepped[i].id

\* The step of entity `id` was no action: no tile changed its type, no
\* entity came to stand on another tile, the level stacks and the hero's
\* point and queue are as before, and nobody else lost or won hit points.
NoAction(id) ==
    /\ \A p \in Points :
           /\ world'.current_level.tiles[p].type = world.current_level.tiles[p].type
           /\ world'.current_level.tiles[p].entity
                  \in {world.current_level.tiles[p].entity, NoEntity}
    /\ world'.upper_levels = world.upper_levels
    /\ world'.lower_levels = world.lower_levels
    /\ world'.hero = world.hero
    /\ hero'.actions = hero.actions
    /\ id # HeroId => hero'.hit_points = hero.hit_points
    /\ \A m \in 1 .. Len(monsters) :
           m # id => monsters'[m].hit_points = monsters[m].hit_points

\* C2: an entity stepped with less than 100 energy performs no action in
\* that tick: it does not move, attack, open or close a door, change level
\* or consume a queued action.
C2_EnergyGate ==
    [][(PassStep /\ EntityOf(St, entity).energy < 100)
          => (error' = "none" /\ NoAction(entity))]_vars

\* C2 witness: in one call the hero was stepped with less than 100 energy
\* and still has its queued action, and a monster was stepped with less than
\* 100 energy.
C2_Witness ==
    /\ hero.actions # << >>
    /\ \E i, j \in Stepped :
           /\ call.stepped[i].id = HeroId
           /\ call.stepped[i].energy < 100
           /\ call.stepped[j].id # HeroId
           /\ call.stepped[j].energy < 100

\* A live monster with the energy to act moved or hit the hero.
MonsterActed ==
    /\ MonsterStepped
    /\ monsters[entity].energy >= 100
    /\ error' = "none"
    /\ (MonsterMoved \/ MonsterHit)

\* C3 as stated: every action, the hero's Wait included, takes exactly 100
\* from the entity's energy before the tick's accrual of speed.
C3_EveryActionCosts100 ==
    [][/\ (/\ \/ HeroExecutes("Move") \/ HeroExecutes("Use") \/ HeroExecutes("Wait")
           /\ error' = "none")
          => hero'.energy = hero.energy - 100 + hero'.speed
       /\ MonsterActed
          => monsters'[entity].energy
                 = monsters[entity].energy - 100 + monsters[entity].speed]_vars

\* C3: the hero's Move and Use and a monster's move, door opening or attack
\* take exactly 100 from the entity's energy before the tick's accrual of
\* speed; the hero's Wait takes nothing, the tick only adds the speed.
C3_ActionCosts100 ==
    [][/\ (/\ HeroExecutes("Move") \/ HeroExecutes("Use")
           /\ error' = "none")
          => hero'.energy = hero.energy - 100 + hero'.speed
       /\ (HeroExecutes("Wait") /\ error' = "none")
          => hero'.energy = hero.energy + hero'.speed
       /\ MonsterActed
          => monsters'[entity].energy
                 = monsters[entity].energy - 100 + monsters[entity].speed]_vars

\* C3 witness: the hero, with 100 energy or more, executed a Wait in a call
\* in which a monster with 100 energy or more left its tile.
C3_Witness ==
    \E i, j \in Stepped :
        /\ call.stepped[i].id = HeroId
        /\ call.stepped[i].action = "Wait"
        /\ call.stepped[j].id # HeroId
        /\ call.stepped[j].energy >= 100
        /\ monsters[call.stepped[j].id].hit_points > 0
        /\ world.current_level.tiles[call.stepped[j].point].entity
               # call.stepped[j].id

\* C4 as stated: a live entity that is stepped and performs no action (it
\* has less than 100 energy, or it is a monster that neither moved nor hit
\* the hero) gains exactly its speed in energy.
C4_IdleGainsSpeed ==
    [][/\ (PassStep /\ entity = HeroId /\ hero.energy < 100 /\ error' = "none")
          => hero'.energy = hero.energy + hero'.speed
       /\ (MonsterStepped /\ error' = "none" /\ ~MonsterMoved /\ ~MonsterHit)
          => monsters'[entity].energy
                 = monsters[entity].energy + monsters[entity].speed]_vars

\* The hero's queued Move or Use is aimed at the tile of monster m.
HeroAttacks(m) ==
    /\ HeroExecutes("Move") \/ HeroExecutes("Use")
    /\ TargetTile.entity = m
    /\ error' = "none"

\* C5: an attack lowers the defender's hit points by exactly
\* max(0, attacker.strength - defender.defence), for the hero's Move and Use
\* attacks and a monster's hit on the hero; no step of an entity raises the
\* hit points of another.
C5_Damage ==
    [][/\ \A m \in 1 .. Len(monsters) :
              HeroAttacks(m)
              => monsters'[m].hit_points
                     = monsters[m].hit_points
                       - Max(0, hero'.strength - monsters[m].defence)
       /\ (MonsterStepped /\ error' = "none" /\ MonsterHit)
          => hero'.hit_points
                 = hero.hit_points
                   - Max(0, monsters[entity].strength - hero.defence)
       /\ (PassStep /\ error' = "none")
          => /\ entity # HeroId => hero'.hit_points <= hero.hit_points
             /\ \A m \in 1 .. Len(monsters) :
                    monsters'[m].hit_points <= monsters[m].hit_points]_vars

\* C5 witness: the hero (strength 1) has hit a Floating Eye (defence 2) for 0
\* damage, and the monster is on the level with all its hit points.
C5_Witness ==
    /\ \E k \in 1 .. Len(hero.messages) :
           hero.messages[k] = Msg("You hit the {} for {} damage!", "Floating Eye", 0)
    /\ \E m \in 1 .. Len(monsters) :
           /\ monsters[m] = [new_floating_eye EXCEPT !.energy = monsters[m].energy]
           /\ m \in EntitiesOn(world.current_level)

AddEntityOutcome(p) ==
    IF world.current_level.tiles[p].entity # NoEntity
    THEN /\ error' = "ExistingEntityError"
         /\ world'.current_level = world.current_level
    ELSE IF world.current_level.tiles[p].type
                \notin {FLOOR, UP_STAIRS, DOWN_STAIRS, OPEN_DOOR}
    THEN /\ error' = "TileNotPassableError"
         /\ world'.current_level = world.current_level
    ELSE /\ error' = "none"
         /\ world'.current_level.tiles[p].entity = Len(monsters) + 1
         /\ \A q \in Points \ {p} :
                world'.current_level.tiles[q] = world.current_level.tiles[q]
         /\ world'.current_level.tiles[p].type = world.current_level.tiles[p].type
         /\ world'.current_level.entities = Append(world.current_level.entities, p)

\* C7: add_entity on an occupied tile raises the occupied-tile error, on an
\* unoccupied impassable tile TileNotPassableError, both leaving the tiles
\* and the entity list as they were; otherwise it stores the entity on the
\* tile and appends the point to the end of the entity list.
C7_AddEntity ==
    [][\A p \in Points : AddEntityCall(p) => AddEntityOutcome(p)]_vars

\* C7 witness: add_entity was called on the tile of a monster and raised,
\* on a level whose entity list holds at least two points.
C7_Witness ==
    /\ pc = "probe"
    /\ error = "ExistingEntityError"
    /\ Len(world.current_level.entities) >= 2
    /\ \E m \in 1 .. Len(monsters) - 1 : m \in EntitiesOn(world.current_level)

\* The hero's queued Use is aimed at an unoccupied tile of type `type_`.
HeroUsesStairs(type_) ==
    /\ HeroExecutes("Use")
    /\ TargetTile.entity = NoEntity
    /\ TargetTile.type = type_

\* C8: a Use toward an unoccupied DownStairs makes the first of lower_levels
\* the current level and the old current level, the hero taken off it, the
\* first of upper_levels; the hero is on the new level's tile
\* ((length - 1) // 2, (length - 1) // 2) and world.hero is that point.
C8_Descend ==
    [][HeroUsesStairs(DOWN_STAIRS)
          => LET c == (Len(Maps[1]) - 1) \div 2
             IN  /\ error' = "none"
                 /\ world'.hero = <<c, c>>
                 /\ world'.current_level.tiles
                        = [world.lower_levels[1].tiles
                             EXCEPT ![<<c, c>>].entity = HeroId]
                 /\ world'.current_level.entities
                        = Append(world.lower_levels[1].entities, <<c, c>>)
                 /\ world'.lower_levels = Tail(world.lower_levels)
                 /\ Tail(world'.upper_levels) = world.upper_levels
                 /\ Head(world'.upper_levels).tiles
                        = [world.current_level.tiles
                             EXCEPT ![world.hero].entity = NoEntity]]_vars

\* C8 witness: the hero has just descended to the second level.
C8_Witness ==
    /\ Len(world.upper_levels) = 1
    /\ hero.messages # << >>
    /\ hero.messages[Len(hero.messages)] = Msg("You descend the stairs.", "", 0)
    /\ call.ended = "truncated"

\* C9: a Use toward an unoccupied UpStairs makes the old current level, the
\* hero taken off it, the first of lower_levels and the first of
\* upper_levels the current level; the hero is on the DownStairs tile of the
\* new current level and world.hero is that tile's point.
C9_Ascend ==
    [][HeroUsesStairs(UP_STAIRS)
          => /\ error' = "none"
             /\ world'.current_level.tiles[world'.hero].type = DOWN_STAIRS
             /\ world'.current_level.tiles
                    = [world.upper_levels[1].tiles
                         EXCEPT ![world'.hero].entity = HeroId]
             /\ world'.current_level.entities
                    = Append(world.upper_levels[1].entities, world'.hero)
             /\ world'.upper_levels = Tail(world.upper_levels)
             /\ Tail(world'.lower_levels) = world.lower_levels
             /\ Head(world'.lower_levels).tiles
                    = [world.current_level.tiles
                         EXCEPT ![world.hero].entity = NoEntity]]_vars

\* C9 witness: the hero has just come back up to the first level, off the
\* centre point.
C9_Witness ==
    /\ world.upper_levels = << >>
    /\ hero.messages # << >>
    /\ hero.messages[Len(hero.messages)] = Msg("You ascend the stairs.", "", 0)
    /\ world.hero # <<centre, centre>>
    /\ call.ended = "truncated"

\* The tombstones of an entity list.
Tombstones(list) == {k \in 1 .. Len(list) : list[k] = NoPoint}

\* C10: when an entity's step changes the current level or kills the hero,
\* world.step returns at once: the call is over, the entity list the pass
\* ran on keeps its tombstones, and no entity is stepped or skipped and no
\* list compacted in a call that has returned.
C10_ReturnsAtOnce ==
    [][/\ (/\ PassStep
           /\ error' = "none"
           /\ Len(world'.upper_levels) > Len(world.upper_levels))
          => /\ pc' = "idle"
             /\ call'.ended = "truncated"
             /\ Len(Head(world'.upper_levels).entities)
                    = Len(world.current_level.entities)
             /\ Tombstones(Head(world'.upper_levels).entities) # {}
       /\ (/\ PassStep
           /\ error' = "none"
           /\ Len(world'.upper_levels) < Len(world.upper_levels))
          => /\ pc' = "idle"
             /\ call'.ended = "truncated"
             /\ Len(Head(world'.lower_levels).entities)
                    = Len(world.current_level.entities)
             /\ Tombstones(Head(world'.lower_levels).entities) # {}
       /\ (/\ PassStep
           /\ error' = "none"
           /\ hero.hit_points > 0
           /\ hero'.hit_points <= 0)
          => /\ pc' = "idle"
             /\ call'.ended = "truncated"
             /\ Len(world'.current_level.entities)
                    = Len(world.current_level.entities)
             /\ Tombstones(world'.current_level.entities) # {}
       /\ (PassStep \/ PassSkip \/ PassEnd) => call.ended = "running"]_vars

\* C10 witness: a monster killed the hero while another entity of the level
\* was still to be stepped; the call returned and the list still has the
\* hero's tombstone.
C10_Witness ==
    /\ hero.hit_points <= 0
    /\ call.ended = "truncated"
    /\ Tombstones(world.current_level.entities) # {}
    /\ \E e \in call.live : \A i \in Stepped : call.stepped[i].id # e


\* The entities standing on any level of the world.
EntitiesInWorld ==
    EntitiesOn(world.current_level)
    \cup UNION {EntitiesOn(world.upper_levels[k]) : k \in 1 .. Len(world.upper_levels)}
    \cup UNION {EntitiesOn(world.lower_levels[k]) : k \in 1 .. Len(world.lower_levels)}

\* The monsters that were killed and taken off their level.
RemovedDead ==
    {m \in 1 .. Len(monsters) :
        monsters[m].hit_points <= 0 /\ m \notin EntitiesInWorld}

\* C11 (the step): a monster stepped with hit_points at or below 0 is taken
\* off its tile and tombstoned in the entity list, the hero gains exactly 1
\* experience and 10 score, the death message is emitted, and nothing else
\* happens: the monster's fields (its energy too), the tile types, the other
\* tiles, the hero's point and hit points are as before.
C11_MonsterDeath ==
    [][(PassStep /\ entity # HeroId /\ monsters[entity].hit_points <= 0)
          => /\ error' = "none"
             /\ world'.current_level.tiles
                    = [world.current_level.tiles
                         EXCEPT ![entity_point].entity = NoEntity]
             /\ world'.current_level.entities
                    = [world.current_level.entities EXCEPT ![idx] = NoPoint]
             /\ hero' = [hero EXCEPT
                           !.experience = @ + 1,
                           !.score = @ + 10,
                           !.messages = Append(@, Msg("The {} dies!",
                                                      monsters[entity].name, 0))]
             /\ monsters' = monsters
             /\ world'.hero = world.hero
             /\ world'.upper_levels = world.upper_levels
             /\ world'.lower_levels = world.lower_levels]_vars

\* C11 (the run): the hero's score is 10 for every killed monster taken off
\* its level (and 100 for every level gained), so each of them was awarded
\* exactly once.
C11_AwardedOnce ==
    hero.score = 10 * Cardinality(RemovedDead) + 100 * (hero.level - 1)

\* C11: both parts, the step and the run.
C11_DeadMonster ==
    C11_MonsterDeath /\ [](C11_AwardedOnce)

\* C11 witness: a killed monster has been stepped and is gone, and the pass
\* went on after it.
C11_Witness ==
    /\ RemovedDead # {}
    /\ hero.experience = 1
    /\ hero.score = 10
    /\ \E i \in Stepped :
           /\ call.stepped[i].id \in RemovedDead
           /\ i < Len(call.stepped)


(***************************************************************************)
(* The game taken up in the middle of a run: the hero has gathered         *)
(* experience, lost a hit point or not, and its regeneration counter and   *)
(* energy stand anywhere in their cycle.                                   *)
(***************************************************************************)
HeroesMidRun ==
    {[h EXCEPT !.experience = e, !.hit_points = hp, !.hp_counter = c, !.energy = en] :
        h \in rand_hero, e \in {0, 5, 6, 7}, hp \in {6, 7},
        c \in {0, 9, 10}, en \in {0, 100}}

InitHero ==
    /\ hero \in HeroesMidRun
    /\ world = make_world
    /\ monsters = << >>
    /\ error = "none"
    /\ pc = "idle"
    /\ idx = 0
    /\ updated_entities = << >>
    /\ ticks = 0
    /\ call = NoCall
    /\ gen = NoGen
    /\ score_saved = FALSE
    /\ scores = << >>

NextHero ==
    \/ \E space \in BOOLEAN, pressed \in Points \cup {NoPoint} :
           MainGameInput(space, pressed, MaxTicksHero)
    \/ MainGameNoStep
    \/ StepNoSpawn
    \/ \E p \in Points, k \in 1 .. MaxRow : StepSpawn(p, k)
    \/ PassSkip
    \/ PassStep
    \/ PassEnd

SpecHero == InitHero /\ [][NextHero]_vars

\* This transition is the step of the hero.
HeroStepped == PassStep /\ entity = HeroId

\* C12: a hero stepped with at least 6 experience comes out with experience
\* 0, level + 1, score + 100, max_hit_points + 1, defence + 1, speed + 10 and
\* strength + 1, acting or not; a hero stepped with less than 6 experience
\* keeps all seven fields.
C12_LevelUp ==
    [][HeroStepped
          => /\ error' = "none"
             /\ hero.experience >= 6
                => /\ hero'.experience = 0
                   /\ hero'.level = hero.level + 1
                   /\ hero'.score = hero.score + 100
                   /\ hero'.max_hit_points = hero.max_hit_points + 1
                   /\ hero'.defence = hero.defence + 1
                   /\ hero'.speed = hero.speed + 10
                   /\ hero'.strength = hero.strength + 1
             /\ hero.experience < 6
                => /\ hero'.experience = hero.experience
                   /\ hero'.level = hero.level
                   /\ hero'.score = hero.score
                   /\ hero'.max_hit_points = hero.max_hit_points
                   /\ hero'.defence = hero.defence
                   /\ hero'.speed = hero.speed
                   /\ hero'.strength = hero.strength]_vars

\* C12 witness: the hero gained its second level in a step in which it also
\* executed a Move.
C12_Witness ==
    /\ hero.level = 2
    /\ hero.experience = 0
    /\ hero.speed = 85
    /\ \E i \in Stepped :
           /\ call.stepped[i].id = HeroId
           /\ call.stepped[i].action = "Move"

\* C13 as stated: while hit_points are below max_hit_points the counter
\* counts the hero's ticks and the tick on which it reaches 10 raises
\* hit_points by 1 and resets it (one hit point every 10 ticks); a tick with
\* hit_points equal to max_hit_points resets the counter and raises nothing.
C13_Regeneration ==
    [][(HeroStepped /\ error' = "none")
          => /\ (hero.hit_points < hero'.max_hit_points /\ hero.hp_counter + 1 >= 10)
                => /\ hero'.hit_points = hero.hit_points + 1
                   /\ hero'.hp_counter = 0
             /\ (hero.hit_points < hero'.max_hit_points /\ hero.hp_counter + 1 < 10)
                => /\ hero'.hit_points = hero.hit_points
                   /\ hero'.hp_counter = hero.hp_counter + 1
             /\ hero.hit_points >= hero'.max_hit_points
                => /\ hero'.hit_points = hero.hit_points
                   /\ hero'.hp_counter = 0]_vars


\* The hero's queued Move is aimed at a tile that holds no entity.
HeroMovesToFree ==
    /\ HeroExecutes("Move")
    /\ TargetTile.entity = NoEntity

\* The hero has gone from its tile to the tile its action was aimed at.
HeroRelocated ==
    /\ world'.hero = TargetPoint
    /\ world'.current_level.tiles[TargetPoint].entity = HeroId
    /\ world'.current_level.tiles[world.hero].entity = NoEntity

\* The message the step has just emitted.
LastMessage == hero'.messages[Len(hero'.messages)]

HeroActsOnOccupied(op) ==
    /\ HeroExecutes(op)
    /\ TargetTile.entity # NoEntity

\* The occupant of the target tile was attacked and the hero stayed.
OccupantAttacked ==
    /\ error' = "none"
    /\ monsters'[TargetTile.entity].hit_points
           = monsters[TargetTile.entity].hit_points
             - Max(0, hero'.strength - monsters[TargetTile.entity].defence)
    /\ LastMessage[1] = "You hit the {} for {} damage!"
    /\ world'.hero = world.hero
    /\ world'.current_level.tiles[world.hero].entity = HeroId
    /\ world'.current_level.tiles[TargetPoint].entity = TargetTile.entity

\* C15: a Move toward an occupied tile attacks the occupant, leaves the hero
\* where it is and discards every remaining queued action; a Use toward an
\* occupied tile attacks the occupant and leaves the remaining queue.
C15_AttackAndQueue ==
    [][/\ HeroActsOnOccupied("Move")
          => (OccupantAttacked /\ hero'.actions = << >>)
       /\ HeroActsOnOccupied("Use")
          => (OccupantAttacked /\ hero'.actions = Tail(hero.actions))]_vars

\* C15 witness: the hero, with two actions queued, executed the Move, hit a
\* monster standing in its way, and its queue is empty.
C15_Witness ==
    /\ hero.actions = << >>
    /\ hero.messages # << >>
    /\ hero.messages[Len(hero.messages)][1] = "You hit the {} for {} damage!"
    /\ \E i \in Stepped :
           /\ call.stepped[i].id = HeroId
           /\ call.stepped[i].action = "Move"
           /\ call.stepped[i].queue >= 2

\* The tile next on the stepped monster's path to the hero.
NextOnPath ==
    world.current_level.tiles[
        Shift(entity_point,
              find_path(entity_point, world.hero, world.current_level).path[1])]

\* That tile is impassable for the monster or holds another monster.
NextIsBlocked ==
    \/ /\ NextOnPath.type \notin {FLOOR, UP_STAIRS, DOWN_STAIRS, OPEN_DOOR}
       /\ ~(NextOnPath.type = CLOSED_DOOR /\ monsters[entity].open_doors)
    \/ NextOnPath.entity \notin {NoEntity, HeroId}

PathMap ==
    << <<" ", " ", " ", " ", " ", " ">>,
       <<"#", ">", ".", "#", ".", "#">>,
       <<"#", ".", "#", "#", "#", "#">>,
       <<"#", ".", ".", "+", ".", "#">>,
       <<"#", ".", ".", "#", ".", "#">>,
       <<"#", "#", "#", "#", "#", "#">> >>

path_level ==
    [tiles |-> [p \in Points |->
                    new_tile(CharType(PathMap[level_length - p[2]][p[1] + 1]))],
     entities |-> << >>]

\* The points a walk from the points `seen` can come to over tiles that are
\* passable or a ClosedDoor, each step to one of the 8 adjacent tiles.
RECURSIVE ReachFrom(_, _)
ReachFrom(level, seen) ==
    LET more == {q \in Points \ seen :
                    /\ level.tiles[q].type
                           \in {FLOOR, UP_STAIRS, DOWN_STAIRS, OPEN_DOOR, CLOSED_DOOR}
                    /\ \E p \in seen : /\ Abs(q[1] - p[1]) <= 1
                                       /\ Abs(q[2] - p[2]) <= 1}
    IN  IF more = {} THEN seen ELSE ReachFrom(level, seen \cup more)

\* `target` is joined to `start` by such a walk.
Joined(level, start, target) == target \in ReachFrom(level, {start})

\* World.__init__ for the hand-built levels: the hero at the centre.
path_world ==
    [upper_levels |-> << >>,
     current_level |-> add_entity(path_level, <<centre, centre>>, HeroId).level,
     lower_levels |-> [k \in 1 .. levels - 1 |-> make_level(k + 1)],
     hero |-> <<centre, centre>>]

InitPath ==
    /\ hero \in rand_hero
    /\ world = path_world
    /\ monsters = << >>
    /\ error = "none"
    /\ pc = "idle"
    /\ idx = 0
    /\ updated_entities = << >>
    /\ ticks = 0
    /\ call = NoCall
    /\ gen = NoGen
    /\ score_saved = FALSE
    /\ scores = << >>

\* The random tile of a spawn is the walled-off Floor tile or the Floor tile
\* behind the door.
PathSpawns ==
    {p \in Points : /\ path_level.tiles[p].type = FLOOR
                    /\ p[1] = level_length - 2
                    /\ p[2] >= centre}

NextPath ==
    \/ \E space \in BOOLEAN, pressed \in Points \cup {NoPoint} :
           MainGameInput(space, pressed, MaxTicksPath)
    \/ MainGameNoStep
    \/ StepNoSpawn
    \/ \E p \in PathSpawns, k \in 1 .. MaxRow : StepSpawn(p, k)
    \/ PassSkip
    \/ PassStep
    \/ PassEnd

SpecPath == InitPath /\ [][NextPath]_vars

\* The tiles of the current level.
Tiles == world.current_level.tiles

\* The click of a live hero on the tile `pressed` of the grid.
PathToCalled(space, pressed) ==
    /\ MainGameInput(space, pressed, MaxTicksPath)
    /\ hero.hit_points > 0
    /\ pressed # NoPoint

\* The queue before path_to is called: the space key has queued a Wait.
QueueBefore(space) ==
    IF space THEN <<[op |-> "Wait", direction |-> "NONE"]>> ELSE hero.actions

\* The queue `actions` is one action per direction of `path`, Moves but for
\* a last Use when the type of the tile `pressed` is in `use_types`.
QueuedAlong(actions, path, pressed, use_types) ==
    /\ Len(actions) = Len(path)
    /\ \A k \in 1 .. Len(path) :
           actions[k] =
               [op |-> IF k = Len(path) /\ Tiles[pressed].type \in use_types
                       THEN "Use" ELSE "Move",
                direction |-> path[k]]

\* What the claim says of the objects `r` the click on `pressed` leaves.
PathToOutcome(r, space, pressed, use_types) ==
    IF Tiles[pressed].type
           \notin {FLOOR, UP_STAIRS, DOWN_STAIRS, OPEN_DOOR, CLOSED_DOOR}
    THEN r.hero.actions = QueueBefore(space)
    ELSE IF pressed = world.hero
    THEN r.hero.actions = <<[op |-> "Wait", direction |-> "NONE"]>>
    ELSE Joined(world.current_level, world.hero, pressed)
         => /\ r.error = "none"
            /\ QueuedAlong(r.hero.actions,
                           find_path(world.hero, pressed, world.current_level).path,
                           pressed, use_types)

\* Between two frames the hero is alive: a click calls path_to.
AwaitsClick == pc = "idle" /\ hero.hit_points > 0

\* C17 as stated: path_to queues one action per direction of the path, Moves
\* but for a last Use when the target is UpStairs, DownStairs, OpenDoor or
\* ClosedDoor; an impassable target other than a ClosedDoor leaves the queue
\* and the hero's own tile makes it a single Wait.
C17_PathToUsesDoors ==
    AwaitsClick
    => \A space \in BOOLEAN, pressed \in Points :
           PathToOutcome(Handled(St, space, pressed), space, pressed,
                         {UP_STAIRS, DOWN_STAIRS, OPEN_DOOR, CLOSED_DOOR})

\* C17: whatever tile is clicked, path_to queues one action per direction of
\* the path, Moves but for a last Use when the target is UpStairs,
\* DownStairs or OpenDoor; a click on a ClosedDoor queues Moves only; an
\* impassable target other than a ClosedDoor leaves the queue and the hero's
\* own tile makes it a single Wait.
C17_PathTo ==
    AwaitsClick
    => \A space \in BOOLEAN, pressed \in Points :
           PathToOutcome(Handled(St, space, pressed), space, pressed,
                         {UP_STAIRS, DOWN_STAIRS, OPEN_DOOR})

\* The points a walk along `path` from `point` enters, in order.
RECURSIVE Walk(_, _)
Walk(point, path) ==
    IF path = << >> THEN << >>
    ELSE <<Shift(point, Head(path))>> \o Walk(Shift(point, Head(path)), Tail(path))

\* The directions of the queued actions.
QueuedPath == [k \in 1 .. Len(hero.actions) |-> hero.actions[k].direction]

\* C17 witness: the click on the closed door beside the hero has queued the
\* one Move onto it.
C17_Witness ==
    /\ pc = "frame"
    /\ error = "none"
    /\ Len(hero.actions) = 1
    /\ hero.actions[1].op = "Move"
    /\ Tiles[Walk(world.hero, QueuedPath)[1]].type = CLOSED_DOOR

\* What the claim says of find_path(start, target, level).
PathFound(start, target, level) ==
    LET r == find_path(start, target, level)
        entered == Walk(start, r.path)
    IN  /\ r.found
        /\ (IF r.path = << >> THEN start ELSE entered[Len(entered)]) = target
        /\ \A k \in 1 .. Len(entered) :
               level.tiles[entered[k]].type
                   \in {FLOOR, UP_STAIRS, DOWN_STAIRS, OPEN_DOOR, CLOSED_DOOR}

\* The entity loop is about to step a live monster that has the energy to
\* act: the monster calls find_path from its tile to the hero's.
MonsterSeeks ==
    /\ InPass
    /\ ~Skips
    /\ entity # HeroId
    /\ monsters[entity].hit_points > 0
    /\ monsters[entity].energy >= 100

\* C18: for a start and a target joined by a chain of 8-adjacent tiles that
\* are passable or a ClosedDoor, find_path returns directions that lead from
\* the start to the target (their unit vectors sum to target - start) and
\* every tile entered on the way is passable or a ClosedDoor.  The calls are
\* those the program is about to make: from the hero's tile to any tile that
\* may be clicked, and from a monster's tile to the hero's.
C18_FindPath ==
    /\ AwaitsClick
       => \A target \in Points :
              Joined(world.current_level, world.hero, target)
              => PathFound(world.hero, target, world.current_level)
    /\ (MonsterSeeks /\ Joined(world.current_level, entity_point, world.hero))
       => PathFound(entity_point, world.hero, world.current_level)

\* C18 witness: the click has queued a path that goes through the closed
\* door and turns behind it.
C18_Witness ==
    /\ pc = "frame"
    /\ error = "none"
    /\ Len(hero.actions) >= 2
    /\ \E k \in 1 .. Len(hero.actions) :
           Tiles[Walk(world.hero, QueuedPath)[k]].type = CLOSED_DOOR
    /\ \E j, k \in 1 .. Len(hero.actions) :
           hero.actions[j].direction # hero.actions[k].direction

\* The live hero clicks a tile it could stand on but cannot walk to.
ClickUnreachable(space, pressed) ==
    /\ PathToCalled(space, pressed)
    /\ Tiles[pressed].type
           \in {FLOOR, UP_STAIRS, DOWN_STAIRS, OPEN_DOOR, CLOSED_DOOR}
    /\ ~Joined(world.current_level, world.hero, pressed)

\* A live monster with the energy to act is stepped and cannot walk to the
\* hero.
MonsterCutOff ==
    /\ MonsterStepped
    /\ monsters[entity].energy >= 100
    /\ ~Joined(world.current_level, entity_point, world.hero)

\* C19: when the target is unreachable find_path stops once the open set is
\* empty and reports the PathNotFound error condition.
C19_PathNotFound ==
    [][/\ \A space \in BOOLEAN, pressed \in Points :
              ClickUnreachable(space, pressed) => error' = "PathNotFound"
       /\ MonsterCutOff => error' = "PathNotFound"]_vars

\* C20: when no path exists the caller completes without an error escaping,
\* the entity does not act, and world.step goes on with the tick.
C20_NoPathNoAct ==
    [][/\ \A space \in BOOLEAN, pressed \in Points :
              ClickUnreachable(space, pressed)
              => /\ error' = "none"
                 /\ pc' = "frame"
                 /\ hero'.actions = QueueBefore(space)
                 /\ world' = world
       /\ MonsterCutOff
          => /\ error' = "none"
             /\ pc' = "pass"
             /\ world' = world
             /\ hero'.hit_points = hero.hit_points]_vars

\* The entries appended to the list since the entity loop began.
Appended == call.length + 1 .. Len(world.current_level.entities)

\* Inside the entity loop: every appended entry is of an entity that is in
\* updated_entities, the loop has stepped no more entries than the list held
\* when it began, and so its position is bounded by twice that length.
C21_AppendedAreSkipped ==
    pc = "pass"
    => /\ \A k \in Appended :
              world.current_level.entities[k] # NoPoint
              => \E j \in 1 .. Len(updated_entities) :
                     updated_entities[j]
                         = world.current_level.tiles[
                               world.current_level.entities[k]].entity
       /\ Len(call.stepped) <= call.length
       /\ Len(world.current_level.entities) <= call.length + Len(call.stepped)
       /\ idx <= Len(world.current_level.entities) + 1

\* C21: every world.step call terminates: the entity pass ends although each
\* relocation appends an entry to the list being iterated, because the
\* appended entry is of an entity already updated in this call and is
\* skipped.
C21_StepTerminates ==
    /\ []C21_AppendedAreSkipped
    /\ (pc = "pass") ~> (pc # "pass")

\* C21 witness: a call with two entities or more has run to its end in
\* which the hero moved to another tile, so that an entry was appended to
\* the list during the pass.
C21_Witness ==
    /\ call.ended = "complete"
    /\ pc = "idle"
    /\ Cardinality(call.live) >= 2
    /\ \E i \in Stepped :
           /\ call.stepped[i].id = HeroId
           /\ call.stepped[i].action = "Move"
           /\ world.hero # call.stepped[i].point

(***************************************************************************)
(* world.py: level generation (make_world, its local make_level,           *)
(* fill_rect, check_fill_rect, make_room, make_corridor).  A generated     *)
(* level's tiles are a function on the points of its own grid, so that     *)
(* len(level.tiles) is the side of DOMAIN level.tiles.                     *)
(***************************************************************************)
\* The side of the grid of a single make_level call (SpecGen).
GenLength == 10

\* The side of the grids of a make_world call (SpecWorld).
WorldLength == 6

\* rand_room_len draws from 2 .. MaxRoomLen (4 .. 7 in the source).
MaxRoomLen == 3

\* make_corridor draws its length from 2 .. MaxCorridorLen (5 .. 15 in the
\* source).
MaxCorridorLen == 2

\* make_world is called with 1 .. MaxLevels for `levels`.
MaxLevels == 3

\* `while reject_count < 20`
MAX_REJECTS == 20

rand_room_len == 2 .. MaxRoomLen

rand_corridor_len == 2 .. MaxCorridorLen

Grid(length) == (0 .. length - 1) \X (0 .. length - 1)

\* The level of lines 44-49: only SOLID_EARTH, no entity.
solid_level(length) ==
    [tiles |-> [p \in Grid(length) |-> new_tile(SOLID_EARTH)],
     entities |-> << >>]

point_within(level, point) == point \in DOMAIN level.tiles

\* range(x, x + width) x range(y, y + height)
InRect(p, point, width, height) ==
    /\ point[1] <= p[1] /\ p[1] < point[1] + width
    /\ point[2] <= p[2] /\ p[2] < point[2] + height

\* fill_rect, for a rectangle inside the grid (every call of it is: the
\* centre room by the choice of the grid's side, the others because they
\* follow a successful check_fill_rect over the same columns or rows).
fill_rect(level, point, width, height, type_) ==
    [level EXCEPT !.tiles =
        [p \in DOMAIN level.tiles |->
            IF InRect(p, point, width, height) THEN new_tile(type_)
            ELSE level.tiles[p]]]

\* level.tiles[x][y] = new_tile(type_)
set_tile(level, point, type_) ==
    [level EXCEPT !.tiles[point] = new_tile(type_)]

\* check_fill_rect that fills whatever is there.
AnyTiles(level, point, width, height) == TRUE

\* The loops of check_fill_rect, lines 194-198.
AllSolidEarth(level, point, width, height) ==
    \A p \in DOMAIN level.tiles :
        InRect(p, point, width, height) => level.tiles[p].type = SOLID_EARTH

\* check_fill_rect: `ok` is the returned value, `level` the level after it.
check_fill_rect(level, point, width, height, type_) ==
    IF ~point_within(level, point)
       \/ ~point_within(level, <<point[1] + width, point[2] + height>>)
    THEN [ok |-> FALSE, level |-> level]
    ELSE IF ~AllSolidEarth(level, point, width, height)
    THEN [ok |-> FALSE, level |-> level]
    ELSE [ok |-> TRUE, level |-> fill_rect(level, point, width, height, type_)]

\* What make_room and make_corridor do after a successful check: the floor,
\* the wall line through wall_point, the door.
Placed(checked, floor_point, floor_width, floor_height, line_point, line_width, line_height, wall_point) ==
    [ok |-> TRUE,
     level |-> set_tile(
                   fill_rect(
                       fill_rect(checked, floor_point, floor_width,
                                 floor_height, FLOOR),
                       line_point, line_width, line_height, WALL),
                   wall_point, CLOSED_DOOR)]

\* make_room with the two rand_room_len() results as arguments.
make_room(level, wall_point, width, height) ==
    LET x == wall_point[1]
        y == wall_point[2]
        north_check == check_fill_rect(level, <<x - width \div 2 - 1, y + 1>>,
                                       width + 2, height + 1, WALL)
        south_check == check_fill_rect(level,
                                       <<x - width \div 2 - 1, y - height - 1>>,
                                       width + 2, height + 1, WALL)
        east_check == check_fill_rect(level, <<x + 1, y - height \div 2 - 1>>,
                                      width + 1, height + 2, WALL)
        west_check == check_fill_rect(level,
                                      <<x - width - 1, y - height \div 2 - 1>>,
                                      width + 1, height + 2, WALL)
    IN  IF north_check.ok
        THEN Placed(north_check.level, <<x - width \div 2, y + 1>>, width, height,
                    <<x - width \div 2 - 1, y>>, width + 2, 1, wall_point)
        ELSE IF south_check.ok
        THEN Placed(south_check.level, <<x - width \div 2, y - height>>,
                    width, height,
                    <<x - width \div 2 - 1, y>>, width + 2, 1, wall_point)
        ELSE IF east_check.ok
        THEN Placed(east_check.level, <<x + 1, y - height \div 2>>, width, height,
                    <<x, y - height \div 2 - 1>>, 1, height + 2, wall_point)
        ELSE IF west_check.ok
        THEN Placed(west_check.level, <<x - width, y - height \div 2>>,
                    width, height,
                    <<x, y - height \div 2 - 1>>, 1, height + 2, wall_point)
        ELSE [ok |-> FALSE, level |-> level]

\* make_corridor with the random.randint(5, 15) result as argument.
make_corridor(level, wall_point, length) ==
    LET x == wall_point[1]
        y == wall_point[2]
        north_check == check_fill_rect(level, <<x - 1, y + 1>>,
                                       3, length + 1, WALL)
        south_check == check_fill_rect(level, <<x - 1, y - length - 1>>,
                                       3, length + 1, WALL)
        east_check == check_fill_rect(level, <<x + 1, y - 1>>,
                                      length + 1, 3, WALL)
        west_check == check_fill_rect(level, <<x - length - 1, y - 1>>,
                                      length + 1, 3, WALL)
    IN  IF north_check.ok
        THEN Placed(north_check.level, <<x, y + 1>>, 1, length,
                    <<x - 1, y>>, 3, 1, wall_point)
        ELSE IF south_check.ok
        THEN Placed(south_check.level, <<x, y - length>>, 1, length,
                    <<x - 1, y>>, 3, 1, wall_point)
        ELSE IF east_check.ok
        THEN Placed(east_check.level, <<x + 1, y>>, length, 1,
                    <<x, y - 1>>, 1, 3, wall_point)
        ELSE IF west_check.ok
        THEN Placed(west_check.level, <<x - length, y>>, length, 1,
                    <<x, y - 1>>, 1, 3, wall_point)
        ELSE [ok |-> FALSE, level |-> level]

\* valid_wall_point without the test for a floor tile beside the point.
inner_wall_point(level, point) ==
    /\ point_within(level, <<point[1], point[2] + 1>>)
    /\ point_within(level, <<point[1], point[2] - 1>>)
    /\ point_within(level, <<point[1] + 1, point[2]>>)
    /\ point_within(level, <<point[1] - 1, point[2]>>)

\* valid_wall_point, lines 89-111.
valid_wall_point(level, point) ==
    LET points == {<<point[1], point[2] + 1>>, <<point[1], point[2] - 1>>,
                   <<point[1] + 1, point[2]>>, <<point[1] - 1, point[2]>>}
    IN  /\ \A p \in points : point_within(level, p)
        /\ \E p \in points : level.tiles[p].type = FLOOR

\* The points random.choice(valid_walls) draws from, lines 113-115.
valid_walls(level) ==
    {p \in DOMAIN level.tiles :
        level.tiles[p].type = WALL /\ valid_wall_point(level, p)}

\* The down stairway drawn among all the tiles one can stand on.
passable_tiles(level) ==
    {p \in DOMAIN level.tiles : passable(level.tiles[p].type)}

\* The points random.choice(get_tiles(level, FLOOR)) draws from, line 127.
floor_tiles(level) == {p \in DOMAIN level.tiles : level.tiles[p].type = FLOOR}

\* (centre, centre) of a make_world call, line 29.
gen_centre == <<(gen.level_length - 1) \div 2, (gen.level_length - 1) \div 2>>

\* The other variables are not the generator's.
GenFrame ==
    UNCHANGED <<hero, monsters, idx, updated_entities, ticks, call,
                score_saved, scores>>

\* make_level up to the loop (lines 44-86), the two rand_room_len() results
\* being centre_width and centre_height.
CentreRoom(centre_width, centre_height) ==
    /\ pc = "make_level"
    /\ LET c == gen_centre[1]
           walls == fill_rect(solid_level(gen.level_length),
                              <<c - centre_width \div 2 - 1,
                                c - centre_height \div 2 - 1>>,
                              centre_width + 2, centre_height + 2, WALL)
           room == fill_rect(walls,
                             <<c - centre_width \div 2, c - centre_height \div 2>>,
                             centre_width, centre_height, FLOOR)
       IN  gen' = [gen EXCEPT
                      !.level = IF gen.up_stairs
                                THEN set_tile(room, gen_centre, UP_STAIRS)
                                ELSE room,
                      !.reject_count = 0]
    /\ pc' = "extend"
    /\ UNCHANGED <<world, error>>
    /\ GenFrame

\* Lines 120-123 with a count of all the failed attempts.
AttemptedNoReset(made) ==
    /\ gen' = [gen EXCEPT !.level = made.level,
                          !.reject_count = IF made.ok THEN @ ELSE @ + 1]
    /\ pc' = "extend"
    /\ error' = error

\* Lines 120-123 for the result `made` of make_fn(level, wall_point).
Attempted(made) ==
    /\ gen' = [gen EXCEPT !.level = made.level,
                          !.reject_count = IF made.ok THEN 0 ELSE @ + 1]
    /\ pc' = "extend"
    /\ error' = error

\* One iteration of `while reject_count < 20` (lines 87-123); random.choice
\* raises IndexError on an empty list.
Extend ==
    /\ pc = "extend"
    /\ gen.reject_count < MAX_REJECTS
    /\ IF valid_walls(gen.level) = {}
       THEN /\ error' = "IndexError"
            /\ pc' = "crashed"
            /\ gen' = gen
       ELSE \E wall_point \in valid_walls(gen.level) :
               \/ \E width \in rand_room_len, height \in rand_room_len :
                      Attempted(make_room(gen.level, wall_point, width, height))
               \/ \E length \in rand_corridor_len :
                      Attempted(make_corridor(gen.level, wall_point, length))
    /\ UNCHANGED world
    /\ GenFrame

\* The loop has ended: lines 125-130, and the level joins the list of
\* line 136.
Return ==
    /\ pc = "extend"
    /\ gen.reject_count >= MAX_REJECTS
    /\ IF ~gen.down_stairs
       THEN /\ gen' = [gen EXCEPT !.world = Append(@, gen.level)]
            /\ pc' = "made"
            /\ error' = error
       ELSE IF floor_tiles(gen.level) = {}
       THEN /\ error' = "IndexError"
            /\ pc' = "crashed"
            /\ gen' = gen
       ELSE \E down \in floor_tiles(gen.level) :
               /\ gen' = [gen EXCEPT
                             !.level = set_tile(gen.level, down, DOWN_STAIRS),
                             !.world = Append(@, set_tile(gen.level, down,
                                                          DOWN_STAIRS))]
               /\ pc' = "made"
               /\ error' = error
    /\ UNCHANGED world
    /\ GenFrame

\* make_level(up_stairs, down_stairs) called on a grid of side GenLength.
InitGen ==
    /\ \E up_stairs \in BOOLEAN, down_stairs \in BOOLEAN :
           gen = [NoGen EXCEPT !.level_length = GenLength,
                               !.up_stairs = up_stairs,
                               !.down_stairs = down_stairs,
                               !.level = solid_level(GenLength)]
    /\ pc = "make_level"
    /\ world = NoWorld
    /\ hero \in rand_hero
    /\ monsters = << >>
    /\ error = "none"
    /\ idx = 0
    /\ updated_entities = << >>
    /\ ticks = 0
    /\ call = NoCall
    /\ score_saved = FALSE
    /\ scores = << >>

NextGen ==
    \/ \E centre_width \in rand_room_len, centre_height \in rand_room_len :
           CentreRoom(centre_width, centre_height)
    \/ Extend
    \/ Return

SpecGen == InitGen /\ [][NextGen]_vars

\* make_level(True, True), the call for a level between the first and the
\* last.
InitGenBoth ==
    /\ InitGen
    /\ gen.up_stairs
    /\ gen.down_stairs

\* make_level runs on: an iteration of its loop, and its return, are not
\* put off for ever.
SpecGenRuns ==
    InitGenBoth /\ [][NextGen]_vars /\ WF_vars(Extend) /\ WF_vars(Return)

\* The side of a grid that the wall ring of the largest centre room fills
\* (SpecGenSmall).
SmallLength == 5

\* make_level(up_stairs, down_stairs) called on a grid of side SmallLength.
InitGenSmall ==
    /\ \E up_stairs \in BOOLEAN, down_stairs \in BOOLEAN :
           gen = [NoGen EXCEPT !.level_length = SmallLength,
                               !.up_stairs = up_stairs,
                               !.down_stairs = down_stairs,
                               !.level = solid_level(SmallLength)]
    /\ pc = "make_level"
    /\ world = NoWorld
    /\ hero \in rand_hero
    /\ monsters = << >>
    /\ error = "none"
    /\ idx = 0
    /\ updated_entities = << >>
    /\ ticks = 0
    /\ call = NoCall
    /\ score_saved = FALSE
    /\ scores = << >>

SpecGenSmall == InitGenSmall /\ [][NextGen]_vars

\* make_world(levels, WorldLength, hero) has been called and is about to
\* make its first level, make_level(False, True).
InitWorld ==
    /\ \E n \in 1 .. MaxLevels :
           gen = [NoGen EXCEPT !.levels = n,
                               !.level_length = WorldLength,
                               !.down_stairs = TRUE,
                               !.level = solid_level(WorldLength)]
    /\ pc = "make_level"
    /\ world = NoWorld
    /\ hero \in rand_hero
    /\ monsters = << >>
    /\ error = "none"
    /\ idx = 0
    /\ updated_entities = << >>
    /\ ticks = 0
    /\ call = NoCall
    /\ score_saved = FALSE
    /\ scores = << >>

\* len(range(levels - 2)), line 137.
MiddleLevels == IF gen.levels - 2 > 0 THEN gen.levels - 2 ELSE 0

\* Lines 136-138: the next make_level call of the list expression, a level
\* with both stairways while the comprehension runs and the last level,
\* without a DownStairs, after it.
NextLevel ==
    /\ pc = "made"
    /\ Len(gen.world) < MiddleLevels + 2
    /\ gen' = [gen EXCEPT !.up_stairs = TRUE,
                          !.down_stairs = (Len(gen.world) <= MiddleLevels),
                          !.level = solid_level(gen.level_length),
                          !.reject_count = 0]
    /\ pc' = "make_level"
    /\ UNCHANGED <<world, error>>
    /\ GenFrame

\* Lines 140-141 and World.__init__: the hero is added at the centre of the
\* first level, the World object is made, and the game waits for input.
BuildWorld ==
    /\ pc = "made"
    /\ Len(gen.world) = MiddleLevels + 2
    /\ LET added == add_entity(gen.world[1], gen_centre, HeroId)
       IN  IF added.error # "none"
           THEN /\ error' = added.error
                /\ pc' = "crashed"
                /\ world' = world
           ELSE /\ error' = error
                /\ pc' = "idle"
                /\ world' = [upper_levels |-> << >>,
                             current_level |-> added.level,
                             lower_levels |-> Tail(gen.world),
                             hero |-> gen_centre]
    /\ gen' = gen
    /\ GenFrame

NextWorld ==
    \/ \E centre_width \in rand_room_len, centre_height \in rand_room_len :
           CentreRoom(centre_width, centre_height)
    \/ Extend
    \/ Return
    \/ NextLevel
    \/ BuildWorld

SpecWorld == InitWorld /\ [][NextWorld]_vars

(***************************************************************************)
(* Claims about level generation.                                          *)
(***************************************************************************)
\* The points of `level` with tile type `type_`.
TilesOf(level, type_) == {p \in DOMAIN level.tiles : level.tiles[p].type = type_}

\* C22: a generated level has exactly one UpStairs iff one was requested, at
\* the centre point and never overwritten by a later placement or by the
\* DownStairs, and exactly one DownStairs iff one was requested.
C22_Stairs ==
    /\ pc \in {"extend", "made"}
       => TilesOf(gen.level, UP_STAIRS)
              = IF gen.up_stairs THEN {gen_centre} ELSE {}
    /\ pc = "extend" => TilesOf(gen.level, DOWN_STAIRS) = {}
    /\ pc = "made"
       => Cardinality(TilesOf(gen.level, DOWN_STAIRS))
              = IF gen.down_stairs THEN 1 ELSE 0

\* C22 witness: a level with both stairways requested has been returned
\* after a room or corridor was attached to the centre room.
C22_Witness ==
    /\ pc = "made"
    /\ gen.up_stairs
    /\ gen.down_stairs
    /\ TilesOf(gen.level, CLOSED_DOOR) # {}
    /\ TilesOf(gen.level, UP_STAIRS) = {gen_centre}

\* The tiles at `point` + `d` and `point` - `d` are on the level and their
\* types are in `types`.
Between(level, point, d, types) ==
    /\ <<point[1] + d[1], point[2] + d[2]>> \in DOMAIN level.tiles
    /\ <<point[1] - d[1], point[2] - d[2]>> \in DOMAIN level.tiles
    /\ level.tiles[<<point[1] + d[1], point[2] + d[2]>>].type \in types
    /\ level.tiles[<<point[1] - d[1], point[2] - d[2]>>].type \in types

\* Every closed door of `level` has a tile of `types` to its north and
\* south, or to its east and west.
DoorsBetween(level, types) ==
    \A p \in TilesOf(level, CLOSED_DOOR) :
        Between(level, p, <<0, 1>>, types) \/ Between(level, p, <<1, 0>>, types)

\* C23 as stated: in every generated level, after the stairs have been
\* placed, every ClosedDoor has a Floor tile as cardinal neighbour on each of
\* the two opposite sides it connects.
C23_DoorsBetweenFloor ==
    pc = "made" => DoorsBetween(gen.level, {FLOOR})

\* C23 amended: while the level is extended every ClosedDoor has a Floor tile
\* on each of the two opposite sides it connects; in the returned level each
\* of the two tiles is a Floor tile or the DownStairs, which replaces a Floor
\* tile drawn at random and so may be one beside a door.
C23_DoorsBetweenFloorOrDownStairs ==
    /\ pc = "extend" => DoorsBetween(gen.level, {FLOOR})
    /\ pc = "made" => DoorsBetween(gen.level, {FLOOR, DOWN_STAIRS})

\* C23 witness: a returned level with a door that has the DownStairs on one
\* side and a Floor tile on the opposite side.
C23_Witness ==
    /\ pc = "made"
    /\ \E p \in TilesOf(gen.level, CLOSED_DOOR) :
           \E d \in {<<0, 1>>, <<1, 0>>, <<0, -1>>, <<-1, 0>>} :
               /\ Between(gen.level, p, d, {FLOOR, DOWN_STAIRS})
               /\ gen.level.tiles[<<p[1] + d[1], p[2] + d[2]>>].type = DOWN_STAIRS
               /\ gen.level.tiles[<<p[1] - d[1], p[2] - d[2]>>].type = FLOOR

\* What one iteration of the extension loop may do to a tile of type `old`
\* that has type `new` afterwards: a Floor, door or stairway tile keeps its
\* type, a Wall tile stays Wall or becomes the door, and Floor is only laid
\* on SolidEarth.
Overlays(old, new) ==
    /\ old \in {FLOOR, CLOSED_DOOR, UP_STAIRS, DOWN_STAIRS} => new = old
    /\ old = WALL => new \in {WALL, CLOSED_DOOR}
    /\ new = FLOOR /\ old # FLOOR => old = SOLID_EARTH

\* C24: during level generation a tile that has become Floor, ClosedDoor or
\* a stairway is never overwritten by a later room or corridor placement,
\* the unchecked re-fill of the wall line included; rooms and corridors
\* overlap only along wall lines.
C24_NoOverwrite ==
    [][pc = "extend" /\ pc' = "extend" /\ gen'.level # gen.level
       => \A p \in DOMAIN gen.level.tiles :
              Overlays(gen.level.tiles[p].type, gen'.level.tiles[p].type)]_vars

\* C24 witness: a second room or corridor has been attached to a level that
\* has an UpStairs.
C24_Witness ==
    /\ pc = "extend"
    /\ gen.up_stairs
    /\ gen.reject_count = 0
    /\ Cardinality(TilesOf(gen.level, CLOSED_DOOR)) >= 2

\* Every tile of the rectangle is a tile of the level.
RectInside(level, point, width, height) ==
    \A x \in point[1] .. point[1] + width - 1,
       y \in point[2] .. point[2] + height - 1 : <<x, y>> \in DOMAIN level.tiles

\* The rectangles check_fill_rect is asked about: bottom left corners on the
\* grid and one step outside it, sides up to those of a room with its walls.
CornerPoints == (-1 .. gen.level_length) \X (-1 .. gen.level_length)

RectSides == 1 .. MaxRoomLen + 2

\* C29: check_fill_rect overwrites the rectangle and returns True exactly
\* when the whole rectangle lies inside the grid and every tile in it is
\* SolidEarth; in every other case it returns False and changes no tile.
C29_CheckFillRect ==
    pc = "extend"
    => \A point \in CornerPoints, width \in RectSides, height \in RectSides :
           /\ check_fill_rect(gen.level, point, width, height, WALL).ok
                  = (/\ RectInside(gen.level, point, width, height)
                     /\ AllSolidEarth(gen.level, point, width, height))
           /\ check_fill_rect(gen.level, point, width, height, WALL).level
                  = IF check_fill_rect(gen.level, point, width, height, WALL).ok
                    THEN fill_rect(gen.level, point, width, height, WALL)
                    ELSE gen.level

\* The extension loop's count: it is 0 after an attempt that changed the
\* level and one more after an attempt that did not, the loop goes on while
\* it is below the limit, and is left when it has reached the limit.
C30_CountsRejections ==
    [][pc = "extend"
       => IF gen.reject_count < MAX_REJECTS
          THEN /\ pc' = "extend"
               /\ gen'.reject_count = IF gen'.level # gen.level
                                      THEN 0
                                      ELSE gen.reject_count + 1
          ELSE /\ pc' = "made"
               /\ gen.reject_count = MAX_REJECTS]_vars

\* C30: the level-extension loop ends exactly when 20 consecutive placement
\* attempts have failed, a success setting the count back to 0, and it
\* always terminates whatever the random choices are.
C30_LoopEnds ==
    /\ C30_CountsRejections
    /\ (pc = "extend") ~> (pc = "made")

\* C30 witness: the loop has ended on a level to which a room or corridor
\* was attached, so that the count was set back on the way.
C30_Witness ==
    /\ pc = "made"
    /\ gen.reject_count = MAX_REJECTS
    /\ Cardinality(TilesOf(gen.level, CLOSED_DOOR)) >= 2

\* The levels of the World object make_world returned, from the first down.
MadeLevels == <<world.current_level>> \o world.lower_levels

\* make_world has returned.
WorldMade == pc = "idle" /\ gen.levels > 0

\* C25: make_world(levels, level_length, hero) creates exactly `levels`
\* levels in total (current level plus lower_levels, upper_levels empty); the
\* first level has no UpStairs, the last has no DownStairs, every level in
\* between has both, and the hero is on the first level at its centre point
\* with world.hero equal to that point.
C25_MakeWorld ==
    WorldMade
    => /\ world.upper_levels = << >>
       /\ Len(MadeLevels) = gen.levels
       /\ TilesOf(MadeLevels[1], UP_STAIRS) = {}
       /\ TilesOf(MadeLevels[Len(MadeLevels)], DOWN_STAIRS) = {}
       /\ \A k \in 2 .. Len(MadeLevels) - 1 :
              /\ TilesOf(MadeLevels[k], UP_STAIRS) # {}
              /\ TilesOf(MadeLevels[k], DOWN_STAIRS) # {}
       /\ world.hero = gen_centre
       /\ world.current_level.tiles[gen_centre].entity = HeroId
       /\ world.current_level.entities = <<gen_centre>>

(***************************************************************************)
(* Claims about the score.                                                 *)
(***************************************************************************)
\* C26: for each game the Score record is emitted at most once, and it has
\* been emitted by the time the game has ended through the hero's death (the
\* frame that finds the hero dead has run) or through the exit button (the
\* MainMenu state has been returned), whichever order those events occur in.
C26_ScoreOnce ==
    [][/\ Len(scores') <= 1
       /\ score_saved' = (Len(scores') = 1)
       /\ pc = "frame" /\ hero.hit_points <= 0 /\ pc' = "idle"
          => Len(scores') = 1
       /\ pc' = "menu" => Len(scores') = 1]_vars

\* C26 witness: a frame has found the hero dead and has emitted the Score
\* record of the dead hero; the game goes on waiting for the exit button.
C26_Witness ==
    /\ pc = "idle"
    /\ hero.hit_points <= 0
    /\ score_saved
    /\ scores = <<[level |-> hero.level, score |-> hero.score]>>
    /\ ticks < MaxTicksLong

(***************************************************************************)
(* Claims about the entity list and the level stack.                       *)
(***************************************************************************)
\* All the levels of the world.
AllLevels ==
    {world.current_level}
        \cup {world.upper_levels[k] : k \in 1 .. Len(world.upper_levels)}
        \cup {world.lower_levels[k] : k \in 1 .. Len(world.lower_levels)}

\* The points of `level` whose tile holds an entity.
Occupied(level) == {p \in DOMAIN level.tiles : level.tiles[p].entity # NoEntity}

\* The entities that are alive.
Live ==
    (IF hero.hit_points > 0 THEN {HeroId} ELSE {})
        \cup {i \in 1 .. Len(monsters) : monsters[i].hit_points > 0}

\* The non-tombstone entries of the entity list of `level` are the occupied
\* points, each listed once, and no entity is on two tiles of the level.
ListMatchesTiles(level) ==
    /\ {level.entities[k] : k \in 1 .. Len(level.entities)} \ {NoPoint}
           = Occupied(level)
    /\ \A j, k \in 1 .. Len(level.entities) :
           level.entities[j] = level.entities[k] /\ level.entities[j] # NoPoint
           => j = k
    /\ \A p, q \in Occupied(level) :
           level.tiles[p].entity = level.tiles[q].entity => p = q

\* Every live entity is on exactly one level.
OnOneLevel ==
    \A id \in Live :
        \E level \in AllLevels :
            /\ id \in EntitiesOn(level)
            /\ \A other \in AllLevels : id \in EntitiesOn(other) => other = level

\* The entity list after a step of the loop: no entry has moved, and an
\* entry has changed only into a tombstone.
EntriesStay ==
    /\ Len(world'.current_level.entities) >= Len(world.current_level.entities)
    /\ \A k \in 1 .. Len(world.current_level.entities) :
           world'.current_level.entities[k]
               \in {world.current_level.entities[k], NoPoint}

\* C27: after every entity step, on every level each tile holds at most one
\* entity, each live entity occupies exactly one tile, and the non-tombstone
\* entries of the level's entity list are exactly the coordinates of its
\* occupied tiles, none listed twice; a removal puts a tombstone in the
\* entry's place without shifting the other entries.
C27_EntityList ==
    /\ [](pc # "crashed" => /\ \A level \in AllLevels : ListMatchesTiles(level)
                            /\ OnOneLevel)
    /\ [][pc = "pass" /\ pc' = "pass" => EntriesStay]_vars

\* C27 witness: inside the entity loop two entries have become tombstones
\* (the hero and a monster have left their tiles), the hero is listed behind
\* them at its new point, and two tiles or more are occupied.
C27_Witness ==
    /\ pc = "pass"
    /\ \E j, k \in 1 .. Len(world.current_level.entities) :
           /\ j < k
           /\ world.current_level.entities[j] = NoPoint
           /\ world.current_level.entities[k] = NoPoint
           /\ \E h \in k + 1 .. Len(world.current_level.entities) :
                  world.current_level.entities[h] = world.hero
    /\ Cardinality(Occupied(world.current_level)) >= 2

\* A door's type whether it is open or closed.
Built(type) == IF type = OPEN_DOOR THEN CLOSED_DOOR ELSE type

\* `level` is the k-th level make_world created: the same tiles, but for the
\* doors opened and the entities on them.
IsLevel(level, k) ==
    \A p \in Points : Built(level.tiles[p].type) = make_level(k).tiles[p].type

RECURSIVE Reversed(_)
Reversed(list) ==
    IF list = << >> THEN << >>
    ELSE Append(Reversed(Tail(list)), Head(list))

\* reverse(upper_levels), current_level, lower_levels.
LevelStack ==
    Reversed(world.upper_levels) \o <<world.current_level>> \o world.lower_levels

\* C28: after any sequence of steps and stair transitions, reverse of
\* upper_levels followed by current_level followed by lower_levels is the
\* ordered sequence of levels make_world created, none lost, duplicated or
\* reordered; and a stair Use never finds the stack it pops from empty:
\* UpStairs are only on levels with a level above, DownStairs only on levels
\* with a level below.
C28_LevelStack ==
    /\ Len(LevelStack) = levels
    /\ \A k \in 1 .. levels : IsLevel(LevelStack[k], k)
    /\ \A k \in 1 .. Len(LevelStack) :
           /\ TilesOf(LevelStack[k], UP_STAIRS) # {} => k > 1
           /\ TilesOf(LevelStack[k], DOWN_STAIRS) # {} => k < Len(LevelStack)
    /\ error # "IndexError"

\* C28 witness: the hero has gone down the stairs and has just come back up
\* to the first level.
C28_Witness ==
    /\ world.upper_levels = << >>
    /\ Len(world.lower_levels) = levels - 1
    /\ TilesOf(world.current_level, DOWN_STAIRS) = {world.hero}
    /\ hero.messages # << >>
    /\ hero.messages[Len(hero.messages)] = Msg("You ascend the stairs.", "", 0)

\* C31: if at some iteration of the extension loop no valid wall point
\* exists, the iteration is counted as a rejection and generation goes on to
\* its normal termination; no error is raised.
C31_NoWallsRejected ==
    [][/\ pc = "extend"
       /\ gen.reject_count < MAX_REJECTS
       /\ valid_walls(gen.level) = {}
       => /\ pc' = "extend"
          /\ gen'.reject_count = gen.reject_count + 1
          /\ gen'.level = gen.level
          /\ error' = "none"]_vars

(***************************************************************************)
(* The game taken up when the hero has come back up to the first level.    *)
(* The pass the hero left it in was truncated: two monsters listed before  *)
(* the hero had moved in it (a tombstone each, the new points appended),   *)
(* the third had not, and the hero's Use left a third tombstone.  The      *)
(* ascent has appended the hero at the DownStairs.                         *)
(***************************************************************************)
\* The number of world steps of a run of SpecReturn.
MaxTicksReturn == 3

\* The two monsters that moved had spent their energy; the third was still
\* gathering it.
ReturnMonsters ==
    <<new_giant_ant, new_gremlin, [new_giant_rat EXCEPT !.energy = 80]>>

ReturnEntities ==
    <<NoPoint, NoPoint, <<1, 1>>, NoPoint, <<1, 2>>, <<2, 2>>,
      get_tiles(path_level, DOWN_STAIRS)[1]>>

ReturnLevel ==
    [tiles |-> [p \in Points |->
                   [path_level.tiles[p] EXCEPT
                       !.entity = IF p = <<1, 2>> THEN 1
                                  ELSE IF p = <<2, 2>> THEN 2
                                  ELSE IF p = <<1, 1>> THEN 3
                                  ELSE IF p = get_tiles(path_level, DOWN_STAIRS)[1]
                                  THEN HeroId
                                  ELSE NoEntity]],
     entities |-> ReturnEntities]

InitReturn ==
    /\ hero \in rand_hero
    /\ world = [upper_levels |-> << >>,
                current_level |-> ReturnLevel,
                lower_levels |-> [k \in 1 .. levels - 1 |-> make_level(k + 1)],
                hero |-> get_tiles(path_level, DOWN_STAIRS)[1]]
    /\ monsters = ReturnMonsters
    /\ error = "none"
    /\ pc = "idle"
    /\ idx = 0
    /\ updated_entities = << >>
    /\ ticks = 0
    /\ call = NoCall
    /\ gen = NoGen
    /\ score_saved = FALSE
    /\ scores = << >>

\* The runs in which no monster is spawned.
NextReturn ==
    \/ \E space \in BOOLEAN, pressed \in Points \cup {NoPoint} :
           MainGameInput(space, pressed, MaxTicksReturn)
    \/ MainGameNoStep
    \/ StepNoSpawn
    \/ PassSkip
    \/ PassStep
    \/ PassEnd

SpecReturn == InitReturn /\ [][NextReturn]_vars

(***************************************************************************)
(* Claims about the spawn.                                                 *)
(***************************************************************************)
\* The entities on the tiles of the current level, the hero included.
LiveEntities == Cardinality(EntitiesOn(world.current_level))

\* C32: whether a step attempts a spawn depends only on the number of live
\* entities on the current level being below the cap; tombstones still in
\* the entity list are not counted.  (Whether the hero counts or not: with
\* fewer live entities than the cap the step attempts a spawn, and it
\* attempts one only with fewer live monsters than the cap.)
C32_SpawnGuard ==
    pc = "frame" /\ StepsWorld
    => /\ LiveEntities < MAX_MONSTERS => MaySpawn(world.current_level)
       /\ MaySpawn(world.current_level) => LiveEntities - 1 < MAX_MONSTERS

(***************************************************************************)
(* The game taken up on a level where five monsters have been spawned: two *)
(* behind the door and three in the hero's rooms, one of them with the     *)
(* energy to act.  The runs spawn up to MaxMonstersCap monsters in all.    *)
(***************************************************************************)
\* The number of world steps of a run of SpecCap.
MaxTicksCap == 3

\* The number of monsters a run of SpecCap may come to: one more than
\* MAX_MONSTERS.
MaxMonstersCap == 7

CapMonsters ==
    <<new_giant_rat, new_giant_ant, [new_giant_rat EXCEPT !.energy = 100],
      new_giant_ant, new_giant_rat>>

CapPoints == <<<<4, 1>>, <<4, 2>>, <<1, 4>>, <<2, 4>>, <<1, 1>>>>

RECURSIVE AddAll(_, _, _)
AddAll(level, points, n) ==
    IF n > Len(points) THEN level
    ELSE AddAll(add_entity(level, points[n], n).level, points, n + 1)

InitCap ==
    /\ hero \in rand_hero
    /\ world = [path_world EXCEPT
                   !.current_level = AddAll(@, CapPoints, 1)]
    /\ monsters = CapMonsters
    /\ error = "none"
    /\ pc = "idle"
    /\ idx = 0
    /\ updated_entities = << >>
    /\ ticks = 0
    /\ call = NoCall
    /\ gen = NoGen
    /\ score_saved = FALSE
    /\ scores = << >>

NextCap ==
    \/ \E space \in BOOLEAN, pressed \in Points \cup {NoPoint} :
           MainGameInput(space, pressed, MaxTicksCap)
    \/ MainGameNoStep
    \/ StepNoSpawn
    \/ \E p \in Points, k \in 1 .. MaxRow : SpawnUpTo(p, k, MaxMonstersCap)
    \/ PassSkip
    \/ PassStep
    \/ PassEnd

SpecCap == InitCap /\ [][NextCap]_vars

\* The monsters on the tiles of a level.
LiveMonsters(level) == EntitiesOn(level) \ {HeroId}

\* C33: on every level, after any sequence of steps and level transitions,
\* the number of live monsters never exceeds MAX_MONSTERS.
C33_MonsterCap ==
    \A level \in AllLevels : Cardinality(LiveMonsters(level)) <= MAX_MONSTERS

\* The sixth monster has been spawned and the next step is about to test
\* the cap.
C33_Witness ==
    /\ Len(monsters) = MAX_MONSTERS
    /\ Cardinality(LiveMonsters(world.current_level)) = MAX_MONSTERS
    /\ pc = "frame"
    /\ StepsWorld
    /\ ~MaySpawn(world.current_level)

\* state.py line 13: the number of levels of the game's world.
LEVELS == 10

\* The monster a step has just placed: the last of `monsters`.
Spawned == Len(monsters') = Len(monsters) + 1

\* C34: a monster is spawned only on a tile that is unoccupied and of type
\* Floor, its species is drawn from the row of monster_fns indexed by the
\* number of levels above the current one, and that index lies inside the
\* table: it is below the number of levels of the world, which LEVELS, the
\* length of the table, bounds.
C34_SpawnPlace ==
    /\ [](Len(world.upper_levels) + 1 + Len(world.lower_levels) = levels)
    /\ [][Spawned
          => /\ Len(world.upper_levels) < levels
             /\ levels <= LEVELS
             /\ LEVELS = Len(monster_fns)
             /\ \E k \in 1 .. Len(monster_fns[Len(world.upper_levels) + 1]) :
                    monsters'[Len(monsters')]
                        = monster_fns[Len(world.upper_levels) + 1][k]
             /\ \E p \in Points :
                    /\ world.current_level.tiles[p].entity = NoEntity
                    /\ world.current_level.tiles[p].type = FLOOR
                    /\ world'.current_level.tiles[p].entity = Len(monsters')
                    /\ world'.current_level.entities
                           = Append(world.current_level.entities, p)]_vars

\* A monster has just been spawned below the first level.
C34_Witness ==
    /\ pc = "pass"
    /\ idx = 1
    /\ Len(world.upper_levels) > 0
    /\ monsters # << >>
    /\ Len(world.current_level.entities) > 1
    /\ LET p == world.current_level.entities[Len(world.current_level.entities)]
       IN  /\ p # NoPoint
           /\ world.current_level.tiles[p].entity = Len(monsters)
           /\ monsters[Len(monsters)].energy = 0

(***************************************************************************)
(* Claims about the compaction.                                            *)
(***************************************************************************)
\* An entry that is not a tombstone.
Listed(p) == p # NoPoint

\* C35: after a world.step whose entity pass was not truncated, the current
\* level's entity list holds no tombstone and its surviving entries keep
\* their relative order; no tombstone is removed while the pass is still
\* iterating, nor by the step that truncates it on the same level.
C35_Compaction ==
    [][/\ pc = "pass" /\ call'.ended = "complete"
          => /\ pc' = "idle"
             /\ Tombstones(world'.current_level.entities) = {}
             /\ world'.current_level.entities
                    = SelectSeq(world.current_level.entities, Listed)
       /\ /\ pc = "pass"
          /\ call'.ended # "complete"
          /\ Len(world'.upper_levels) = Len(world.upper_levels)
          => Tombstones(world.current_level.entities)
                 \subseteq Tombstones(world'.current_level.entities)]_vars

\* A full pass has ended on a list that held tombstones and more than one
\* live entry: the list is shorter than when the pass began.
C35_Witness ==
    /\ pc = "idle"
    /\ ticks > 0
    /\ call.ended = "complete"
    /\ Len(world.current_level.entities) > 1
    /\ Len(world.current_level.entities) < call.length

(***************************************************************************)
(* Claims about what a world.step changes.                                 *)
(***************************************************************************)
TypesOf(level) == [p \in DOMAIN level.tiles |-> level.tiles[p].type]

\* The same type, or a door opened or closed.
DoorChange(a, b) == a = b \/ {a, b} = {CLOSED_DOOR, OPEN_DOOR}

\* `level` with nothing changed but the hero put on `point`.
WithHero(level, point) ==
    [tiles |-> [level.tiles EXCEPT ![point].entity = HeroId],
     entities |-> Append(level.entities, point)]

\* The step stays on the level: the other levels are as they were, and the
\* tile types too but for doors opened or closed.
FrameOnLevel ==
    /\ world'.upper_levels = world.upper_levels
    /\ world'.lower_levels = world.lower_levels
    /\ \A p \in Points :
           DoorChange(world.current_level.tiles[p].type,
                      world'.current_level.tiles[p].type)

\* The step goes from the level `from` to the level `to`: no tile type
\* changes on the level left, and the level come to gains the hero only.
FrameAcross(from, to) ==
    /\ TypesOf(from) = TypesOf(world.current_level)
    /\ world'.current_level = WithHero(to, world'.hero)

\* What a step inside world.step that returns changes of the world.
FrameOfStep ==
    \/ /\ Len(world'.upper_levels) = Len(world.upper_levels)
       /\ FrameOnLevel
    \/ /\ world.lower_levels # << >>
       /\ world'.upper_levels # << >>
       /\ Tail(world'.upper_levels) = world.upper_levels
       /\ world'.lower_levels = Tail(world.lower_levels)
       /\ FrameAcross(world'.upper_levels[1], world.lower_levels[1])
    \/ /\ world.upper_levels # << >>
       /\ world'.lower_levels # << >>
       /\ Tail(world'.lower_levels) = world.lower_levels
       /\ world'.upper_levels = Tail(world.upper_levels)
       /\ FrameAcross(world'.lower_levels[1], world.upper_levels[1])

\* C36: a world.step changes no tile type except ClosedDoor to OpenDoor or
\* back on the current level, and changes nothing on any other level, except
\* that a stair transition adds the hero to the arrival level.
C36_Frame ==
    [][(pc \in {"frame", "pass"} /\ error' = "none" /\ world' # world)
       => FrameOfStep]_vars

\* The hero has opened the door of the first level and gone down the
\* stairs: the level above holds the open door and no hero.
C36_Witness ==
    /\ error = "none"
    /\ world.upper_levels # << >>
    /\ \E p \in Points : world.upper_levels[1].tiles[p].type = OPEN_DOOR
    /\ HeroId \notin EntitiesOn(world.upper_levels[1])
    /\ HeroId \in EntitiesOn(world.current_level)

(***************************************************************************)
(* Claims about doors.                                                     *)
(***************************************************************************)
\* The entity whose step the pass is executing may open doors.
StepperOpensDoors ==
    entity = HeroId \/ (entity \in 1 .. Len(monsters) /\ monsters[entity].open_doors)

\* A step that opens the door at p is the step of the hero or of a monster
\* that opens doors, and that entity enters the tile.
DoorOpenedBy(p) ==
    /\ world.current_level.tiles[p].type = CLOSED_DOOR
    /\ world'.current_level.tiles[p].type = OPEN_DOOR
    => /\ pc = "pass"
       /\ StepperOpensDoors
       /\ world'.current_level.tiles[p].entity = entity

\* A step that closes the door at p is the hero's, and nobody stands on it.
DoorClosedBy(p) ==
    /\ world.current_level.tiles[p].type = OPEN_DOOR
    /\ world'.current_level.tiles[p].type = CLOSED_DOOR
    => /\ pc = "pass"
       /\ entity = HeroId
       /\ world.current_level.tiles[p].entity = NoEntity
       /\ world'.current_level.tiles[p].entity = NoEntity

DoorSteps ==
    Len(world'.upper_levels) = Len(world.upper_levels)
    /\ world'.current_level.tiles # world.current_level.tiles
    => \A p \in Points : DoorOpenedBy(p) /\ DoorClosedBy(p)

\* C37: at every moment every occupied tile has a passable type: a
\* ClosedDoor is entered only by the entity that turns it into an OpenDoor,
\* the hero or a monster that can open doors, and the hero's Use closes an
\* OpenDoor only when no entity stands on it.
C37_OccupiedPassable ==
    /\ [](\A level \in AllLevels : \A p \in Occupied(level) :
              passable(level.tiles[p].type))
    /\ [][DoorSteps]_vars

\* The hero has just closed a door (the message is not collected yet), and
\* a monster is on the level.
C37_Witness ==
    /\ \E k \in 1 .. Len(hero.messages) :
           hero.messages[k] = Msg("You close the door.", "", 0)
    /\ \E p \in Points : world.current_level.tiles[p].type = CLOSED_DOOR
    /\ LiveMonsters(world.current_level) # {}

(***************************************************************************)
(* Claims about the frames that step the world.                            *)
(***************************************************************************)
\* C38: MainGame steps the world only while the hero is alive and has
\* either less than 100 energy or an action queued; consequently a step of
\* the hero that has the energy to act always finds an action in the queue.
C38_QueueNotEmpty ==
    /\ [](\A i \in Stepped :
              /\ call.stepped[i].id = HeroId
              /\ call.stepped[i].energy >= 100
              => call.stepped[i].queue > 0)
    /\ [][pc = "frame" /\ pc' \in {"pass", "crashed"}
          => /\ hero.hit_points > 0
             /\ hero.energy < 100 \/ Len(hero.actions) > 0]_vars

\* The hero's step has taken the only action of the queue, and the frame
\* that follows does not step the world.
C38_Witness ==
    /\ pc = "frame"
    /\ hero.hit_points > 0
    /\ hero.energy >= 100
    /\ hero.actions = << >>
    /\ \E i \in Stepped : /\ call.stepped[i].id = HeroId
                          /\ call.stepped[i].energy >= 100
                          /\ call.stepped[i].queue = 1

(***************************************************************************)
(* Claims about the placement errors.                                      *)
(***************************************************************************)
PlacementErrors == {"ExistingEntityError", "TileNotPassableError"}

(***************************************************************************)
(* The game taken up on the second level, the hero one step east of the    *)
(* UpStairs with the energy to act.  On the first level, which the hero    *)
(* left by the DownStairs, two monsters were closing in: one at the centre *)
(* and one next to the stairs; the hero's Use left a tombstone behind them.*)
(***************************************************************************)
\* The number of world steps of a run of SpecBack.
MaxTicksBack == 4

\* The number of monsters a run of SpecBack may come to.
MaxMonstersBack == 3

BackMonsters == <<[new_giant_ant EXCEPT !.energy = 60], new_gremlin>>

BackPoints == <<<<centre, centre>>, <<1, 3>>>>

\* The level left behind: the monsters and then the hero's tombstone.
BackUpper ==
    [AddAll(path_level, BackPoints, 1) EXCEPT !.entities = Append(@, NoPoint)]

InitBack ==
    /\ hero \in {[h EXCEPT !.energy = 100] : h \in rand_hero}
    /\ world = [upper_levels |-> <<BackUpper>>,
                current_level |->
                    add_entity(make_level(2), <<centre + 1, centre>>, HeroId).level,
                lower_levels |-> [k \in 1 .. levels - 2 |-> make_level(k + 2)],
                hero |-> <<centre + 1, centre>>]
    /\ monsters = BackMonsters
    /\ error = "none"
    /\ pc = "idle"
    /\ idx = 0
    /\ updated_entities = << >>
    /\ ticks = 0
    /\ call = NoCall
    /\ gen = NoGen
    /\ score_saved = FALSE
    /\ scores = << >>

NextBack ==
    \/ \E space \in BOOLEAN, pressed \in Points \cup {NoPoint} :
           MainGameInput(space, pressed, MaxTicksBack)
    \/ MainGameNoStep
    \/ StepNoSpawn
    \/ \E p \in Points, k \in 1 .. MaxRow : SpawnUpTo(p, k, MaxMonstersBack)
    \/ PassSkip
    \/ PassStep
    \/ PassEnd

SpecBack == InitBack /\ [][NextBack]_vars

\* The level a stair transition goes to, as it is before the transition,
\* and the point the hero is put on.
ArrivesFree(level, point) ==
    /\ level.tiles[point].entity = NoEntity
    /\ passable(level.tiles[point].type)

\* C39: no world step raises an occupied-tile or impassable-tile placement
\* error: the relocations of Move and of the monsters go onto unoccupied
\* passable tiles, and the arrival tile of a stair transition, the centre
\* of the level below or the DownStairs of the level above, is passable and
\* unoccupied when the hero arrives.
C39_NoPlacementError ==
    /\ [](error \notin PlacementErrors)
    /\ [][/\ Len(world'.upper_levels) > Len(world.upper_levels)
             /\ world.lower_levels # << >>
             => ArrivesFree(world.lower_levels[1], <<centre, centre>>)
          /\ /\ Len(world'.upper_levels) < Len(world.upper_levels)
             /\ get_tiles(world.upper_levels[1], DOWN_STAIRS) # << >>
             => ArrivesFree(world.upper_levels[1],
                            get_tiles(world.upper_levels[1], DOWN_STAIRS)[1])]_vars

\* The hero has come back up to the first level, next to a monster that is
\* alive, and nothing was raised.
C39_Witness ==
    /\ error = "none"
    /\ world.upper_levels = << >>
    /\ world.current_level.tiles[world.hero].entity = HeroId
    /\ world.current_level.tiles[world.hero].type = DOWN_STAIRS
    /\ world.current_level.tiles[<<1, 3>>].entity \in 1 .. Len(monsters)
    /\ monsters[world.current_level.tiles[<<1, 3>>].entity].hit_points > 0

(***************************************************************************)
(* The game taken up in a fight: the hero, one kill short of a level, at   *)
(* the centre with the energy of two actions; a giant rat two tiles away,  *)
(* listed before the hero and ready to move, and a giant rat next to the   *)
(* hero, listed after it.                                                  *)
(***************************************************************************)
\* The number of world steps of a run of SpecKills.
MaxTicksKills == 3

KillsMonsters == <<[new_giant_rat EXCEPT !.energy = 100], new_giant_rat>>

KillsLevel ==
    [tiles |-> [p \in Points |->
                   [path_level.tiles[p] EXCEPT
                       !.entity = IF p = <<1, 4>> THEN 1
                                  ELSE IF p = <<centre, centre>> THEN HeroId
                                  ELSE IF p = <<centre, centre - 1>> THEN 2
                                  ELSE NoEntity]],
     entities |-> <<<<1, 4>>, <<centre, centre>>, <<centre, centre - 1>>>>]

InitKills ==
    /\ hero \in {[h EXCEPT !.experience = 5, !.energy = 150] : h \in rand_hero}
    /\ world = [path_world EXCEPT !.current_level = KillsLevel]
    /\ monsters = KillsMonsters
    /\ error = "none"
    /\ pc = "idle"
    /\ idx = 0
    /\ updated_entities = << >>
    /\ ticks = 0
    /\ call = NoCall
    /\ gen = NoGen
    /\ score_saved = FALSE
    /\ scores = << >>

\* The runs in which no monster is spawned.
NextKills ==
    \/ \E space \in BOOLEAN, pressed \in Points \cup {NoPoint} :
           MainGameInput(space, pressed, MaxTicksKills)
    \/ MainGameNoStep
    \/ StepNoSpawn
    \/ PassSkip
    \/ PassStep
    \/ PassEnd

SpecKills == InitKills /\ [][NextKills]_vars

\* C40: the hero's experience never exceeds 6 in any reachable state:
\* between two consecutive steps of the hero at most one monster death is
\* processed, so the level-up's reset to 0 discards no experience.
C40_ExperienceAtMostSix == hero.experience <= 6

=============================================================================
